---------------------------- MODULE Spec2Model ----------------------------
(***************************************************************************)
(* State-machine model of GModAddonTranslator (src/translator_logic.py)    *)
(* and of the entry point TranslatorGUI.start_processing                   *)
(* (src/translator_gui.py).                                                *)
(*                                                                         *)
(* Names, ids and file contents are sequences of one-character strings.    *)
(* A few multi-character tokens stand for runs of characters that no       *)
(* search pattern of the program can overlap ("addon_", the fixed part of  *)
(* the workshop URL, the fixed lines of the shortcut file).                *)
(*                                                                         *)
(* Environment assumptions of the model: the log and progress callbacks    *)
(* return normally; nobody but the program writes below the translated     *)
(* folder while a batch runs.                                              *)
(***************************************************************************)
EXTENDS Integers, Sequences, FiniteSets, TLC

(* ------------------------------ bounds -------------------------------- *)
MaxAddons == 2      \* addon folders in the workshop folder
MaxBatches == 1     \* process_addons calls of a behaviour of Spec
MaxCalls == 2       \* process_addons calls of a behaviour of SpecRuns
MaxFaults == 1      \* injected I/O faults and exceptions of a behaviour
MaxManual == 2      \* set_manual_paths calls in a row of a behaviour of SpecSetup
MaxGuiThreads == 2  \* background threads of one kind alive at a time in SpecGui
MaxEvents == 2      \* callbacks waiting for the UI thread in SpecGui

(* --------------------------- value universe --------------------------- *)
None == "None"

\* The addon ids the environment may place in the workshop folder.
AddonIds == { <<"1">>, <<"1", "2">> }

\* Workshop entries that are always present and are no addon: a directory
\* whose name is not all-digit and a plain file whose name is all-digit.
OtherEntries ==
    { [name |-> <<"x">>, isdir |-> TRUE, gma |-> FALSE],
      [name |-> <<"7">>, isdir |-> FALSE, gma |-> FALSE] }

\* Raw titles the workshop page may carry.
RawTitles == { <<"A">>, <<" ", "A", "?">>, <<"?">> }

\* Outcomes of the HTTP request of get_addon_name.
Responses ==
    { [kind |-> "exception", title |-> <<>>],
      [kind |-> "status", title |-> <<>>],
      [kind |-> "notitle", title |-> <<>>] }
    \cup { [kind |-> "title", title |-> r] : r \in RawTitles }

\* Values a caller may pass as max_workers: an int or another type.
IntArg(n) == [type |-> "int", v |-> n]
StrArg == [type |-> "str", v |-> 0]
MaxWorkersArgs == { IntArg(0), IntArg(1), IntArg(20), IntArg(21), StrArg }

\* Texts the thread spinbox may hold when Start is clicked.
SpinboxTexts == { <<"0">>, <<"1">>, <<"2", "0">>, <<"2", "1">>, <<"a">> }

(* --------------------------- pure functions --------------------------- *)
DigitChars == { "0", "1", "2", "3", "4", "5", "6", "7", "8", "9" }

\* str.isdigit()
IsDigit(s) == Len(s) > 0 /\ \A i \in 1..Len(s) : s[i] \in DigitChars

DigitValue(c) ==
    CASE c = "0" -> 0 [] c = "1" -> 1 [] c = "2" -> 2 [] c = "3" -> 3
      [] c = "4" -> 4 [] c = "5" -> 5 [] c = "6" -> 6 [] c = "7" -> 7
      [] c = "8" -> 8 [] OTHER -> 9

RECURSIVE DecimalValue(_)
DecimalValue(s) ==
    IF s = <<>> THEN 0
    ELSE 10 * DecimalValue(SubSeq(s, 1, Len(s) - 1)) + DigitValue(s[Len(s)])

\* int(text) of start_processing: an int, or a ValueError.
ParseInt(text) ==
    IF IsDigit(text) THEN [ok |-> TRUE, v |-> DecimalValue(text)]
    ELSE [ok |-> FALSE, v |-> 0]

\* The worker-count check of start_processing: int() and 1 <= threads <= 20.
GuiThreadsValid(text) ==
    ParseInt(text).ok /\ ~(ParseInt(text).v < 1 \/ ParseInt(text).v > 20)

\* ThreadPoolExecutor(max_workers=...) raises for a value <= 0 and for a
\* value that does not compare with 0; it accepts every other int.
ExecutorAccepts(mw) == mw.type = "int" /\ ~(mw.v <= 0)

RECURSIVE LStrip(_)
LStrip(s) == IF s # <<>> /\ Head(s) = " " THEN LStrip(Tail(s)) ELSE s

RECURSIVE RStrip(_)
RStrip(s) ==
    IF s # <<>> /\ s[Len(s)] = " " THEN RStrip(SubSeq(s, 1, Len(s) - 1)) ELSE s

\* str.strip()
Strip(s) == RStrip(LStrip(s))

InvalidChars == { "<", ">", ":", "\"", "/", "\\", "|", "?", "*" }

IsValidChar(c) == c \notin InvalidChars

\* The title clean-up loop of get_addon_name.
RemoveInvalid(s) == SelectSeq(s, IsValidChar)

\* get_addon_name: the cleaned title, or None.
GetAddonName(resp) ==
    IF resp.kind = "title"
    THEN [some |-> TRUE, v |-> RemoveInvalid(Strip(resp.title))]
    ELSE [some |-> FALSE, v |-> <<>>]

\* `if not addon_name` fallback of process_single_addon.
UseFallbackEmptyIsName(got) == ~got.some

UseFallback(got) == ~got.some \/ got.v = <<>>

SyntheticName(addon_id) == <<"addon_">> \o addon_id

ResolveName(addon_id, got) ==
    IF UseFallback(got) THEN SyntheticName(addon_id) ELSE got.v

\* Text written by create_workshop_shortcut.
IdTokenNoEquals(addon_id) == <<"i", "d">> \o addon_id

IdToken(addon_id) == <<"i", "d", "=">> \o addon_id

WorkshopUrl(addon_id) ==
    <<"https://steamcommunity.com/sharedfiles/filedetails/?">> \o IdToken(addon_id)

MarkerContent(addon_id) ==
    <<"[InternetShortcut]\n", "URL=">> \o WorkshopUrl(addon_id)
        \o <<"\n", "IconIndex=0\n">>

\* `pattern in content` of Python strings.
Contains(content, pat) ==
    \E k \in 1..(Len(content) - Len(pat) + 1) :
        SubSeq(content, k, k + Len(pat) - 1) = pat

\* The test `f"id={addon_id}" in content` of is_addon_already_processed.
MarkerMatches(content, addon_id) == Contains(content, <<"i", "d", "=">> \o addon_id)

RECURSIVE TakeDigits(_)
TakeDigits(s) ==
    IF s # <<>> /\ Head(s) \in DigitChars THEN <<Head(s)>> \o TakeDigits(Tail(s))
    ELSE <<>>

\* The id a marker encodes: the digits that follow the first "id=" of its
\* text, or the empty sequence when it has none.
EncodedId(content) ==
    LET hits == { k \in 1..(Len(content) - 2) : SubSeq(content, k, k + 2) = <<"i", "d", "=">> }
    IN  IF hits = {} THEN <<>>
        ELSE LET k == CHOOSE m \in hits : \A n \in hits : m <= n
             IN  TakeDigits(SubSeq(content, k + 3, Len(content)))

Range(s) == { s[i] : i \in 1..Len(s) }

\* All orders in which os.listdir may return the members of S.
Orders(S) ==
    { s \in [1..Cardinality(S) -> S] : Range(s) = S }

(* ------------------------- paths and the disk ------------------------- *)
\* A path is a sequence of separators and name parts; a file system maps
\* the component list of each existing entry to its kind.
Sep == "/"

\* An argument that may be None: set_manual_paths(workshop, gmad, cache).
NoPath == [some |-> FALSE, v |-> <<>>]
PathArg(p) == [some |-> TRUE, v |-> p]

\* `not path`: None or the empty string.
Falsy(a) == ~a.some \/ a.v = <<>>

\* The names a path walks through when the system resolves it.
RECURSIVE Components(_)
Components(p) ==
    IF p = <<>> THEN <<>>
    ELSE IF Head(p) = Sep THEN Components(Tail(p))
    ELSE LET n == CHOOSE k \in 1..(Len(p) + 1) :
                      /\ k = Len(p) + 1 \/ p[k] = Sep
                      /\ \A j \in 1..(k - 1) : p[j] # Sep
         IN  << SubSeq(p, 1, n - 1) >> \o Components(SubSeq(p, n, Len(p)))

TrailingSep(p) == p # <<>> /\ p[Len(p)] = Sep

\* os.path.exists
Exists(fs, p) ==
    /\ p # <<>>
    /\ \/ Components(p) = <<>>
       \/ /\ Components(p) \in DOMAIN fs
          /\ TrailingSep(p) => fs[Components(p)].kind = "dir"

\* os.path.isdir
IsDir(fs, p) ==
    Exists(fs, p) /\ (Components(p) = <<>> \/ fs[Components(p)].kind = "dir")

\* os.path.isfile
IsFile(fs, p) ==
    Exists(fs, p) /\ Components(p) # <<>> /\ fs[Components(p)].kind = "file"

\* os.listdir
ListDir(fs, p) ==
    { c[Len(c)] : c \in { e \in DOMAIN fs :
                            /\ Len(e) = Len(Components(p)) + 1
                            /\ SubSeq(e, 1, Len(e) - 1) = Components(p) } }

\* os.path.join(a, b) for a relative b
Join(a, b) ==
    IF a = <<>> \/ a[Len(a)] = Sep THEN a \o b ELSE a \o << Sep >> \o b

RECURSIVE RStripSep(_)
RStripSep(p) ==
    IF p # <<>> /\ p[Len(p)] = Sep THEN RStripSep(SubSeq(p, 1, Len(p) - 1)) ELSE p

\* os.path.dirname: everything up to the last separator, without the
\* separators at its end unless it consists of separators only.
Dirname(p) ==
    LET seps == { k \in 1..Len(p) : p[k] = Sep }
        i == IF seps = {} THEN 0 ELSE CHOOSE k \in seps : \A j \in seps : j <= k
        head == SubSeq(p, 1, i)
    IN  IF head # <<>> /\ (\E k \in 1..Len(head) : head[k] # Sep)
        THEN RStripSep(head) ELSE head

\* path.endswith('.exe')
EndsWithExe(p) == p # <<>> /\ p[Len(p)] = ".exe"

\* validate_workshop_path
ValidateWorkshopPath(fs, a) ==
    /\ ~Falsy(a)
    /\ Exists(fs, a.v)
    /\ IsDir(fs, a.v)
    /\ \E item \in ListDir(fs, a.v) : IsDigit(item) /\ IsDir(fs, Join(a.v, item))

\* validate_gmad_path
ValidateGmadPath(fs, a) ==
    \/ Falsy(a)
    \/ /\ Exists(fs, a.v)
       /\ IsFile(fs, a.v)
       /\ fs[Components(a.v)].exec \/ EndsWithExe(a.v)

\* validate_cache_path
ValidateCachePath(fs, a) ==
    Falsy(a) \/ (Exists(fs, a.v) /\ IsDir(fs, a.v))

TranslatedName == << "4000Translated" >>

\* create_translated_folder: the path it derives and the disk it leaves.
CreateTranslatedFolder(fs, w) ==
    LET tp == Join(Dirname(w), TranslatedName)
    IN  [ path |-> tp,
          fs |-> IF Exists(fs, tp) THEN fs
                 ELSE fs @@ (Components(tp) :> [kind |-> "dir", exec |-> TRUE]) ]

\* The disk of the set_manual_paths calls: a workshop folder /s/w with an
\* addon, a folder /s/e without one, gmad files and a cache folder.
Dir == [kind |-> "dir", exec |-> TRUE]
File(x) == [kind |-> "file", exec |-> x]
BaseDisk ==
    (<< <<"s">> >> :> Dir)
    @@ (<< <<"s">>, <<"w">> >> :> Dir)
    @@ (<< <<"s">>, <<"w">>, <<"1">> >> :> Dir)
    @@ (<< <<"s">>, <<"w">>, <<"7">> >> :> File(FALSE))
    @@ (<< <<"s">>, <<"e">> >> :> Dir)
    @@ (<< <<"s">>, <<"e">>, <<"7">> >> :> File(FALSE))
    @@ (<< <<"s">>, <<"e">>, <<"x">> >> :> Dir)
    @@ (<< <<"s">>, <<"g">> >> :> File(TRUE))
    @@ (<< <<"s">>, <<"g", ".exe">> >> :> File(FALSE))
    @@ (<< <<"s">>, <<"n">> >> :> File(FALSE))
    @@ (<< <<"s">>, <<"c">> >> :> Dir)

\* The translated folder may be missing or already there.
Disks ==
    { BaseDisk,
      BaseDisk @@ (<< <<"s">>, <<"4000Translated">> >> :> Dir) }

WorkshopArgs ==
    { NoPath, PathArg(<<>>),
      PathArg(<< Sep, "s", Sep, "w" >>), PathArg(<< Sep, "s", Sep, "w", Sep >>),
      PathArg(<< Sep, "s", Sep, "e" >>), PathArg(<< Sep, "s", Sep, "g" >>),
      PathArg(<< Sep, "s", Sep, "q" >>) }

GmadArgs ==
    { NoPath, PathArg(<<>>),
      PathArg(<< Sep, "s", Sep, "g" >>), PathArg(<< Sep, "s", Sep, "g", ".exe" >>),
      PathArg(<< Sep, "s", Sep, "n" >>), PathArg(<< Sep, "s", Sep, "c" >>),
      PathArg(<< Sep, "s", Sep, "q" >>) }

CacheArgs ==
    { NoPath, PathArg(<< Sep, "s", Sep, "c" >>), PathArg(<< Sep, "s", Sep, "g" >>),
      PathArg(<< Sep, "s", Sep, "q" >>) }

(* ----------------------------- format_size ---------------------------- *)
\* A byte count is written in base 1024, lowest limb first, so that every
\* number of the computation stays small; a value of the loop is an
\* integer part (limbs, lowest first) and a fraction (limbs, highest
\* first). Byte counts of the model have at most 30 significant bits, for
\* which the float divisions of the program are exact.
Limb == 1024

Units == << "B", "KB", "MB", "GB", "TB" >>

\* One limb for each unit of the loop, one for PB and one beyond it.
LimbCount == Len(Units) + 2

\* A comparison that lets 1024 through as well.
AtMost1024(ip) ==
    \/ \A i \in 2..Len(ip) : ip[i] = 0
    \/ ip[1] = 0 /\ ip[2] = 1 /\ \A i \in 3..Len(ip) : ip[i] = 0

\* bytes_size < 1024.0
Below1024(ip) == \A i \in 2..Len(ip) : ip[i] = 0

\* bytes_size /= 1024.0
DivideBy1024(v) ==
    [ ip |-> IF Len(v.ip) = 1 THEN << 0 >> ELSE Tail(v.ip),
      fr |-> << Head(v.ip) >> \o v.fr ]

RECURSIVE IntValue(_)
IntValue(ip) == IF ip = <<>> THEN 0 ELSE Head(ip) + Limb * IntValue(Tail(ip))

\* The fraction fr times m: the integer part of the product (carry) and
\* the fraction that is left (rem).
RECURSIVE MulFrac(_, _)
MulFrac(fr, m) ==
    IF fr = <<>> THEN [carry |-> 0, rem |-> <<>>]
    ELSE LET rest == MulFrac(Tail(fr), m)
             t == m * Head(fr) + rest.carry
         IN  [carry |-> t \div Limb, rem |-> << t % Limb >> \o rest.rem]

\* How a fraction compares with one half: -1, 0 or 1.
CompareHalf(rem) ==
    IF rem = <<>> THEN -1
    ELSE IF rem[1] > Limb \div 2 THEN 1
    ELSE IF rem[1] < Limb \div 2 THEN -1
    ELSE IF \E j \in 2..Len(rem) : rem[j] # 0 THEN 1 ELSE 0

\* The value in hundredths as `.2f` rounds it: to the nearest, a tie to
\* the even neighbour.
Hundredths(v) ==
    LET p == MulFrac(v.fr, 100)
        low == 100 * IntValue(v.ip) + p.carry
        c == CompareHalf(p.rem)
    IN  IF c = 1 \/ (c = 0 /\ low % 2 = 1) THEN low + 1 ELSE low

DigitChar(d) == << "0", "1", "2", "3", "4", "5", "6", "7", "8", "9" >>[d + 1]

\* The decimal digits of a natural number.
RECURSIVE Digits(_)
Digits(n) ==
    IF n < 10 THEN << DigitChar(n) >> ELSE Digits(n \div 10) \o << DigitChar(n % 10) >>

\* f"{bytes_size:.2f} {unit}"
FormatValue(v, unit) ==
    LET h == Hundredths(v)
    IN  Digits(h \div 100) \o << "." >>
            \o << DigitChar((h % 100) \div 10), DigitChar(h % 10) >>
            \o << " ", unit >>

\* The loop of format_size from the k-th unit on.
RECURSIVE FormatLoop(_, _)
FormatLoop(v, k) ==
    IF k <= Len(Units)
    THEN IF Below1024(v.ip) THEN FormatValue(v, Units[k])
         ELSE FormatLoop(DivideBy1024(v), k + 1)
    ELSE FormatValue(v, "PB")

\* format_size(bytes_size)
FormatSize(n) == FormatLoop([ip |-> n, fr |-> <<>>], 1)

\* The byte count with limb a at position p, limbs b and c right below it
\* and zeros elsewhere.
Bytes(p, a, b, c) ==
    [ i \in 1..LimbCount |->
        IF i = p THEN a
        ELSE IF i = p - 1 THEN b
        ELSE IF i = p - 2 THEN c
        ELSE 0 ]

\* The byte counts format_size is called with.
SizeInputs ==
    { Bytes(p, a, b, c) :
        p \in 1..LimbCount, a \in { 0, 1, 2, 1023 },
        b \in { 0, 1, 128, 511, 512, 513, 1023 }, c \in { 0, 1 } }


(* ------------------------ find_steam_workshop ------------------------- *)
\* WORKSHOP_PATH_CANDIDATES: the two paths under the home directory, which
\* expanduser makes absolute, and the two paths that are joined to a drive.
WORKSHOP_PATH_CANDIDATES ==
    << << Sep, "h", Sep, ".steam" >>, << Sep, "h", Sep, ".local" >>,
       << "Program Files (x86)" >>, << "Steam" >> >>

\* os.path.isabs
IsAbs(p) == p # <<>> /\ Head(p) = Sep

\* The drive roots get_windows_drives asks for, in alphabetical order.
DriveRoots == << << "C:", Sep >>, << "D:", Sep >> >>

\* get_windows_drives: the drive roots that exist.
GetWindowsDrives(existing) == SelectSeq(DriveRoots, LAMBDA d : d \in existing)

AbsoluteCandidates == SelectSeq(WORKSHOP_PATH_CANDIDATES, IsAbs)
RelativeCandidates == SelectSeq(WORKSHOP_PATH_CANDIDATES, LAMBDA c : ~IsAbs(c))

\* One drive's paths: every relative candidate joined to it, in list order.
OnDrive(d) == [ k \in 1..Len(RelativeCandidates) |-> Join(d, RelativeCandidates[k]) ]

\* A search that takes the candidates one by one and tries every drive for
\* each of them.
CandidateMajor(drives) ==
    [ n \in 1..(Len(drives) * Len(RelativeCandidates)) |->
        Join(drives[((n - 1) % Len(drives)) + 1],
             RelativeCandidates[((n - 1) \div Len(drives)) + 1]) ]

\* The paths of the second loop in the order it tries them: drive by
\* drive, and on each drive the relative candidates in list order.
RECURSIVE DriveMajor(_)
DriveMajor(drives) ==
    IF drives = <<>> THEN <<>>
    ELSE OnDrive(Head(drives)) \o DriveMajor(Tail(drives))

\* find_steam_workshop on a disk where exactly the paths of `existing`
\* exist: the first existing absolute candidate, else the first existing
\* path of the drive loop, else False.
FindSteamWorkshop(existing) ==
    LET order == AbsoluteCandidates \o DriveMajor(GetWindowsDrives(existing))
        hits == { k \in 1..Len(order) : order[k] \in existing }
    IN  IF hits = {} THEN [ret |-> FALSE, path |-> NoPath]
        ELSE [ ret |-> TRUE,
               path |-> PathArg(order[CHOOSE k \in hits : \A j \in hits : k <= j]) ]

\* Every path find_steam_workshop may ask for, and the disks of the model:
\* a path on a drive exists only where the drive does.
DrivePaths(d) == { OnDrive(d)[k] : k \in 1..Len(RelativeCandidates) }

WorkshopDisks ==
    { abs \cup UNION { dp[j] : j \in 1..Len(DriveRoots) } :
        abs \in SUBSET Range(AbsoluteCandidates),
        dp \in [ 1..Len(DriveRoots) ->
                   UNION { { {} } \cup { { DriveRoots[j] } \cup x :
                                           x \in SUBSET DrivePaths(DriveRoots[j]) } :
                           j \in 1..Len(DriveRoots) } ] }

(* ------------------------------- state -------------------------------- *)
VARIABLES
    workshop_path,      \* self.workshop_path: None or a path
    translated_path,    \* self.translated_path
    gmad_path,          \* self.gmad_path
    cache_path,         \* self.cache_path
    workshop,           \* entries of the workshop folder on disk
    cache_gma,          \* ids with an <id>.gma file in the cache folder
    out_root,           \* whether the translated folder exists on disk
    out,                \* its subdirectories: name -> directory
    cpc,                \* where the thread running process_addons stands
    caller,             \* "none", "direct" or "gui": who called process_addons
    max_workers,        \* argument of the running process_addons call
    addon_folders,      \* local addon_folders
    scan_idx,           \* position of the already-processed loop
    skipped,            \* local skipped
    addons_to_process,  \* local addons_to_process
    completed,          \* local completed
    total_to_process,   \* local total_to_process
    tasks,              \* futures submitted to the executor, in submit order
    consumed,           \* futures as_completed has already yielded
    cpend,              \* log lines the coordinator is about to emit
    print_lock,         \* holder of self.print_lock, or Free
    in_log,             \* threads that are inside the log callback
    result,             \* outcome of the last finished call
    processing,         \* TranslatorGUI.processing
    ui_events,          \* callbacks posted with root.after, not yet run
    gui_error,          \* whether start_processing showed "Invalid Input"
    window,             \* widgets of the window and its background threads
    progress_calls,     \* arguments of the progress callback, in call order
    hist,               \* observations about the calls made so far
    faults,             \* number of injected I/O faults and exceptions
    frame               \* a call of another method: arguments, disk, result

vars ==
    << workshop_path, translated_path, gmad_path, cache_path, workshop, cache_gma,
       out_root, out, cpc, caller, max_workers, addon_folders, scan_idx, skipped,
       addons_to_process, completed, total_to_process, tasks, consumed, cpend,
       print_lock, in_log, result, processing, ui_events, gui_error, window,
       progress_calls, hist, faults, frame >>

pathVars == << workshop_path, translated_path, gmad_path, cache_path, frame >>
diskVars == << workshop, cache_gma, out_root, out >>
guiVars == << processing, ui_events, gui_error, window >>
scanVars == << addon_folders, scan_idx, skipped, addons_to_process >>
poolVars == << completed, total_to_process, tasks, consumed >>
lockVars == << print_lock, in_log >>

Free == -1
Coordinator == 0

NoMarker == [exists |-> FALSE, content |-> <<>>]

\* A log line queued by a thread: its text key, the addon it is about and
\* whether it goes through safe_log (TRUE) or straight through log (FALSE).
Line(msg, addon_id, safe) == [msg |-> msg, id |-> addon_id, safe |-> safe]

NoId == <<>>

\* Addons whose workshop folder holds a .gma file.
GmaIds == { <<"1", "2">> }

\* What a cache folder may hold: the ids with an <id>.gma file in it.
CacheListings == { { <<"1">> }, { <<"1">>, <<"1", "2">> } }

AddonEntry(i) == [name |-> i, isdir |-> TRUE, gma |-> (i \in GmaIds)]

AddonEntries(ws) == { e \in ws : e.isdir /\ IsDigit(e.name) }

NewTask(addon_id, idx) ==
    [ id |-> addon_id, idx |-> idx, st |-> "queued", pc |-> "queued",
      name |-> <<>>, got |-> "na", copy |-> "na", mark |-> "na",
      unpack |-> "na", pend |-> <<>> ]

NoFrame == [fn |-> "none"]

\* The window after setup_ui: which widgets are enabled, whether the
\* manual path dialog is open, how many background threads of each kind
\* are alive, and what the last click on Start came to.
NewWindow ==
    [ start |-> FALSE, init |-> TRUE, open |-> FALSE, delete |-> FALSE,
      spinbox |-> TRUE, dialog |-> FALSE, batch |-> 0, deleting |-> 0,
      initing |-> 0, made |-> 0, last |-> "none" ]

\* The translator and the window after construction.
InitBase ==
    /\ workshop_path = NoPath
    /\ translated_path = NoPath
    /\ gmad_path = NoPath
    /\ cache_path = NoPath
    /\ cache_gma = {}
    /\ \E i \in AddonIds : workshop = OtherEntries \cup { AddonEntry(i) }
    /\ out_root = FALSE
    /\ out = <<>>
    /\ cpc = "idle"
    /\ caller = "none"
    /\ max_workers = IntArg(6)
    /\ addon_folders = <<>>
    /\ scan_idx = 1
    /\ skipped = 0
    /\ addons_to_process = <<>>
    /\ completed = 0
    /\ total_to_process = 0
    /\ tasks = <<>>
    /\ consumed = {}
    /\ cpend = <<>>
    /\ print_lock = Free
    /\ in_log = {}
    /\ result = "none"
    /\ processing = FALSE
    /\ ui_events = <<>>
    /\ gui_error = FALSE
    /\ window = NewWindow
    /\ progress_calls = <<>>
    /\ hist = [ calls |-> 0, prev_ok |-> FALSE, changed |-> FALSE,
                dirty |-> FALSE, unread |-> {}, unmarked |-> {} ]
    /\ faults = 0

Init == InitBase /\ frame = NoFrame

(* ------------------------- logging and the lock ----------------------- *)
Workers == 1..Len(tasks)

Live(t) == t = Coordinator \/ t \in Workers

Pend(t) == IF t = Coordinator THEN cpend ELSE tasks[t].pend

\* A thread that has a line to emit is busy with it before it goes on.
Quiet(t) == Pend(t) = <<>> /\ t \notin in_log

PopPend(t) ==
    IF t = Coordinator
    THEN /\ cpend' = Tail(cpend)
         /\ UNCHANGED tasks
    ELSE /\ tasks' = [tasks EXCEPT ![t].pend = Tail(@)]
         /\ UNCHANGED cpend

\* `with self.print_lock:` can be entered when nobody holds the lock.
LockIgnored == TRUE

LockAvailable == print_lock = Free

\* safe_log, first half: take print_lock and enter self.log.
SafeLogEnter(t) ==
    /\ Live(t)
    /\ t \notin in_log
    /\ Pend(t) # <<>>
    /\ Head(Pend(t)).safe
    /\ LockAvailable
    /\ print_lock' = t
    /\ in_log' = in_log \cup {t}
    /\ UNCHANGED << pathVars, diskVars, cpc, caller, max_workers, scanVars, poolVars,
                    cpend, result, guiVars, progress_calls, hist, faults >>

\* safe_log, second half: the callback returns and the lock is released.
SafeLogExit(t) ==
    /\ Live(t)
    /\ t \in in_log
    /\ Head(Pend(t)).safe
    /\ in_log' = in_log \ {t}
    /\ print_lock' = Free
    /\ PopPend(t)
    /\ UNCHANGED << pathVars, diskVars, cpc, caller, max_workers, scanVars, completed,
                    total_to_process, consumed, result, guiVars, progress_calls,
                    hist, faults >>

\* log called directly (no lock), first half: enter the callback.
LogEnter(t) ==
    /\ Live(t)
    /\ t \notin in_log
    /\ Pend(t) # <<>>
    /\ ~Head(Pend(t)).safe
    /\ in_log' = in_log \cup {t}
    /\ UNCHANGED << pathVars, diskVars, cpc, caller, max_workers, scanVars, poolVars,
                    cpend, print_lock, result, guiVars, progress_calls, hist,
                    faults >>

\* log called directly, second half: the callback returns.
LogExit(t) ==
    /\ Live(t)
    /\ t \in in_log
    /\ ~Head(Pend(t)).safe
    /\ in_log' = in_log \ {t}
    /\ PopPend(t)
    /\ UNCHANGED << pathVars, diskVars, cpc, caller, max_workers, scanVars, completed,
                    total_to_process, consumed, print_lock, result, guiVars,
                    progress_calls, hist, faults >>

(* ------------------------------ set-up -------------------------------- *)
\* What is on the disk when initialize() looks for it, besides the
\* workshop folder: << a gmad candidate, a cache candidate >>.
Found == BOOLEAN \X BOOLEAN

\* The candidates initialize() finds.
WorkshopFound == PathArg(<< Sep, "s", Sep, "w" >>)
GmadFound == PathArg(<< Sep, "s", Sep, "g" >>)
CacheFound == PathArg(<< Sep, "s", Sep, "c" >>)

\* A discovery that looks for the cache folder whether or not gmad was found.
FindCacheAlways(found, old) == IF found[2] THEN CacheFound ELSE NoPath

\* self.cache_path after find_gmad_exe: find_cache_folder runs only when a
\* gmad candidate exists, and sets the path to the candidate or to None.
FindCacheFolder(found, old) ==
    IF found[1] THEN (IF found[2] THEN CacheFound ELSE NoPath) ELSE old

\* initialize(): the workshop folder is found; gmad may be found, and the
\* cache folder is searched only when gmad was; the translated folder is
\* created when missing.
Initialize(found) ==
    /\ cpc = "idle"
    /\ workshop_path = NoPath
    /\ workshop_path' = WorkshopFound
    /\ gmad_path' = IF found[1] THEN GmadFound ELSE gmad_path
    /\ cache_path' = FindCacheFolder(found, cache_path)
    /\ cache_gma' \in IF found[1] /\ found[2] THEN CacheListings ELSE { cache_gma }
    /\ translated_path' = PathArg(CreateTranslatedFolder(BaseDisk, WorkshopFound.v).path)
    /\ out_root' = TRUE
    /\ frame' = [ fn |-> "initialize", gmad |-> found[1], cache |-> found[2],
                  ret |-> "true" ]
    /\ hist' = [hist EXCEPT !.dirty = TRUE]
    /\ UNCHANGED << workshop, out, cpc, caller, max_workers, scanVars, poolVars, cpend,
                    lockVars, result, guiVars, progress_calls, faults >>

\* The set_manual_paths calls that are about to be made.
ManualFrames ==
    { [ fn |-> "set_manual_paths", workshop |-> w, gmad |-> g, cache |-> c,
        disk0 |-> d, disk |-> d, ret |-> "pending", n |-> 1, calls |-> 0,
        before |-> << NoPath, NoPath, NoPath, NoPath >> ] :
        w \in WorkshopArgs, g \in GmadArgs, c \in CacheArgs, d \in Disks }

\* The arguments of the set_manual_paths calls that follow or precede an
\* initialize() and a batch: a valid and an invalid path of each kind.
SetupArgs ==
    { << w, g, c >> :
        w \in { PathArg(<< Sep, "s", Sep, "w" >>), PathArg(<< Sep, "s", Sep, "q" >>) },
        g \in { NoPath, PathArg(<< Sep, "s", Sep, "g" >>), PathArg(<< Sep, "s", Sep, "n" >>) },
        c \in { NoPath, PathArg(<< Sep, "s", Sep, "c" >>), PathArg(<< Sep, "s", Sep, "q" >>) } }

\* set_manual_paths(args) is called while no batch runs; the frame keeps
\* the four paths as they are before the call.
CallSetManualPaths(args) ==
    /\ cpc = "idle"
    /\ frame.fn = "set_manual_paths" => (frame.ret # "pending" /\ frame.n < MaxManual)
    /\ LET d == IF out_root THEN BaseDisk @@ (<< <<"s">>, TranslatedName >> :> Dir)
                ELSE BaseDisk
       IN  frame' = [ fn |-> "set_manual_paths", workshop |-> args[1], gmad |-> args[2],
                      cache |-> args[3], disk0 |-> d, disk |-> d, ret |-> "pending",
                      n |-> IF frame.fn = "set_manual_paths" THEN frame.n + 1 ELSE 1,
                      calls |-> hist.calls,
                      before |-> << workshop_path, translated_path, gmad_path,
                                    cache_path >> ]
    /\ UNCHANGED << workshop_path, translated_path, gmad_path, cache_path, diskVars, cpc,
                    caller, max_workers, scanVars, poolVars, cpend, lockVars, result,
                    guiVars, progress_calls, hist, faults >>

\* set_manual_paths(workshop_path, gmad_path, cache_path): each check that
\* fails returns (False, message) and keeps what was set before it.
SetManualPaths ==
    /\ frame.fn = "set_manual_paths"
    /\ frame.ret = "pending"
    /\ LET w == frame.workshop
           g == frame.gmad
           c == frame.cache
           fs == frame.disk
           made == CreateTranslatedFolder(fs, w.v)
       IN  IF ~ValidateWorkshopPath(fs, w)
           THEN /\ frame' = [frame EXCEPT !.ret = "invalid_workshop", !.calls = hist.calls]
                /\ UNCHANGED << workshop_path, gmad_path, cache_path, translated_path,
                                out_root >>
           ELSE /\ workshop_path' = w
                /\ IF ~Falsy(g) /\ ~ValidateGmadPath(fs, g)
                   THEN /\ frame' = [frame EXCEPT !.ret = "invalid_gmad",
                                                  !.calls = hist.calls]
                        /\ UNCHANGED << gmad_path, cache_path, translated_path, out_root >>
                   ELSE /\ gmad_path' = IF Falsy(g) THEN gmad_path ELSE g
                        /\ IF ~Falsy(c) /\ ~ValidateCachePath(fs, c)
                           THEN /\ frame' = [frame EXCEPT !.ret = "invalid_cache",
                                                          !.calls = hist.calls]
                                /\ UNCHANGED << cache_path, translated_path, out_root >>
                           ELSE /\ cache_path' = IF Falsy(c) THEN cache_path ELSE c
                                /\ translated_path' = PathArg(made.path)
                                /\ out_root' = TRUE
                                /\ frame' = [frame EXCEPT !.ret = "ok",
                                                          !.disk = made.fs,
                                                          !.calls = hist.calls]
    /\ UNCHANGED << workshop, cache_gma, out, cpc, caller, max_workers, scanVars,
                    poolVars, cpend, lockVars, result, guiVars, progress_calls, hist,
                    faults >>

\* The user subscribes to one more addon while no batch runs.
AddAddon(i) ==
    /\ cpc = "idle"
    /\ i \notin { e.name : e \in workshop }
    /\ Cardinality(AddonEntries(workshop)) < MaxAddons
    /\ workshop' = workshop \cup { AddonEntry(i) }
    /\ hist' = [hist EXCEPT !.dirty = TRUE]
    /\ UNCHANGED << pathVars, cache_gma, out_root, out, cpc, caller, max_workers,
                    scanVars, poolVars, cpend, lockVars, result, guiVars,
                    progress_calls, faults >>

(* --------------------------- process_addons --------------------------- *)
\* Entry of process_addons(max_workers): the locals of the previous call
\* are gone and the first line is logged.
EnterProcessAddons(mw, who) ==
    /\ caller' = who
    /\ max_workers' = mw
    /\ cpc' = "begin"
    /\ cpend' = << Line("processing_addons", NoId, FALSE) >>
    /\ addon_folders' = <<>>
    /\ scan_idx' = 1
    /\ skipped' = 0
    /\ addons_to_process' = <<>>
    /\ completed' = 0
    /\ total_to_process' = 0
    /\ tasks' = <<>>
    /\ consumed' = {}
    /\ result' = "running"
    /\ progress_calls' = <<>>
    /\ hist' = [ calls |-> hist.calls + 1, prev_ok |-> (result = "true"),
                 changed |-> hist.dirty, dirty |-> FALSE, unread |-> {},
                 unmarked |-> { tasks[t].id : t \in { u \in 1..Len(tasks) :
                                    \/ tasks[u].copy = "error"
                                    \/ tasks[u].mark = "failed" } } ]

\* process_addons(max_workers) called directly by a program, after
\* initialize() or without it.
DirectCall(mw, limit) ==
    /\ cpc = "idle"
    /\ ~processing
    /\ hist.calls < limit
    /\ EnterProcessAddons(mw, "direct")
    /\ UNCHANGED << pathVars, diskVars, lockVars, guiVars, faults >>

\* A start_processing without its first check.
NeverProcessing == FALSE

\* The first check of start_processing: "if self.processing: return".
AlreadyProcessing == processing

\* The widgets start_processing disables, and its thread started.
ThreadStarted(w) ==
    [w EXCEPT !.start = FALSE, !.init = FALSE, !.spinbox = FALSE, !.batch = @ + 1]

\* TranslatorGUI.start_processing: the Start button is clicked with `text`
\* in the thread spinbox.
StartProcessing(text, limit) ==
    /\ workshop_path # NoPath
    /\ IF AlreadyProcessing
       THEN UNCHANGED vars
       ELSE IF ~GuiThreadsValid(text)
            THEN /\ gui_error' = TRUE
                 /\ UNCHANGED << pathVars, diskVars, cpc, caller, max_workers, scanVars,
                                 poolVars, cpend, lockVars, result, processing,
                                 ui_events, window, progress_calls, hist, faults >>
            ELSE /\ cpc = "idle"
                 /\ hist.calls < limit
                 /\ processing' = TRUE
                 /\ gui_error' = FALSE
                 /\ window' = ThreadStarted(window)
                 /\ EnterProcessAddons(IntArg(ParseInt(text).v), "gui")
                 /\ UNCHANGED << pathVars, diskVars, lockVars, ui_events, faults >>

\* on_processing_complete, run by the UI thread.
OnProcessingComplete ==
    /\ ui_events # <<>>
    /\ Head(ui_events) = "complete"
    /\ ui_events' = Tail(ui_events)
    /\ processing' = FALSE
    /\ window' = [window EXCEPT !.start = TRUE, !.open = TRUE, !.spinbox = TRUE]
    /\ UNCHANGED << pathVars, diskVars, cpc, caller, max_workers, scanVars, poolVars,
                    cpend, lockVars, result, gui_error, progress_calls, hist,
                    faults >>

\* on_processing_error, run by the UI thread.
OnProcessingError ==
    /\ ui_events # <<>>
    /\ Head(ui_events) = "error"
    /\ ui_events' = Tail(ui_events)
    /\ processing' = FALSE
    /\ window' = [window EXCEPT !.start = TRUE, !.spinbox = TRUE]
    /\ UNCHANGED << pathVars, diskVars, cpc, caller, max_workers, scanVars, poolVars,
                    cpend, lockVars, result, gui_error, progress_calls, hist,
                    faults >>

\* What os.listdir(None) may return: the entries of the current directory.
CwdListings == { {}, { "f" } }

\* os.listdir(self.workshop_path) and the isdir/isdigit filter; listdir
\* may raise, and the exception leaves process_addons. With workshop_path
\* None, listdir lists the current directory and os.path.join(None, f)
\* raises TypeError for its first entry, if it has one.
ListWorkshop ==
    /\ cpc = "begin"
    /\ Quiet(Coordinator)
    /\ \/ /\ faults < MaxFaults
          /\ faults' = faults + 1
          /\ cpc' = "raise"
          /\ UNCHANGED << scanVars, cpend >>
       \/ /\ workshop_path = NoPath
          /\ \E cwd \in CwdListings :
                IF cwd # {}
                THEN /\ cpc' = "raise"
                     /\ UNCHANGED << scanVars, cpend, faults >>
                ELSE /\ addon_folders' = <<>>
                     /\ cpend' = << Line("found_total", NoId, FALSE),
                                    Line("checking", NoId, FALSE) >>
                     /\ cpc' = "scan"
                     /\ UNCHANGED << scan_idx, skipped, addons_to_process, faults >>
       \/ /\ workshop_path # NoPath
          /\ \E order \in Orders({ e.name : e \in AddonEntries(workshop) }) :
                addon_folders' = order
          /\ cpend' = << Line("found_total", NoId, FALSE),
                         Line("checking", NoId, FALSE) >>
          /\ cpc' = "scan"
          /\ UNCHANGED << scan_idx, skipped, addons_to_process, faults >>
    /\ UNCHANGED << pathVars, diskVars, caller, max_workers, poolVars, lockVars,
                    result, guiVars, progress_calls, hist >>

\* is_addon_already_processed(addon_id): listing_ok is whether
\* os.listdir(translated_path) returned, unreadable the subdirectories
\* whose shortcut file could not be opened or read.
IsAddonAlreadyProcessed(addon_id, listing_ok, unreadable) ==
    /\ out_root
    /\ listing_ok
    /\ \E d \in (DOMAIN out) \ unreadable :
        /\ out[d].marker.exists
        /\ MarkerMatches(out[d].marker.content, addon_id)

\* One iteration of the already-processed loop of process_addons.
ScanStep ==
    /\ cpc = "scan"
    /\ Quiet(Coordinator)
    /\ scan_idx <= Len(addon_folders)
    /\ \E listing_ok \in BOOLEAN, unreadable \in SUBSET (DOMAIN out) :
        LET addon_id == addon_folders[scan_idx]
            faulty == ~listing_ok \/ unreadable # {}
        IN  /\ Cardinality(unreadable) <= 1
            /\ listing_ok \/ (unreadable = {} /\ out_root)
            /\ \A d \in unreadable : out[d].marker.exists
            /\ faulty => faults < MaxFaults
            /\ faults' = IF faulty THEN faults + 1 ELSE faults
            /\ IF IsAddonAlreadyProcessed(addon_id, listing_ok, unreadable)
               THEN /\ skipped' = skipped + 1
                    /\ UNCHANGED addons_to_process
               ELSE /\ addons_to_process' = Append(addons_to_process, addon_id)
                    /\ UNCHANGED skipped
            /\ cpend' = IF listing_ok THEN <<>>
                        ELSE << Line("error_checking", addon_id, FALSE) >>
            /\ hist' = IF faulty THEN [hist EXCEPT !.unread = @ \cup {addon_id}]
                       ELSE hist
    /\ scan_idx' = scan_idx + 1
    /\ UNCHANGED << pathVars, diskVars, cpc, caller, max_workers, addon_folders,
                    poolVars, lockVars, result, guiVars, progress_calls >>

\* A weaker loop condition: true as soon as one iteration has run.
ScanFinishedEarly == scan_idx > 1

\* The loop has run for every addon folder.
ScanFinished == scan_idx > Len(addon_folders)

\* After the loop: the early return when nothing is left, else the
\* counters of the dispatch.
ScanDone ==
    /\ cpc = "scan"
    /\ Quiet(Coordinator)
    /\ ScanFinished
    /\ LET skipline == IF skipped > 0 THEN << Line("skipping", NoId, FALSE) >> ELSE <<>>
       IN  IF Len(addons_to_process) = 0
           THEN /\ cpend' = skipline \o << Line("all_processed", NoId, FALSE) >>
                /\ cpc' = "return_true"
                /\ UNCHANGED << completed, total_to_process >>
           ELSE /\ cpend' = skipline \o << Line("processing_new", NoId, FALSE),
                                          Line("using_threads", NoId, FALSE) >>
                /\ completed' = 0
                /\ total_to_process' = Len(addons_to_process)
                /\ cpc' = "pool"
    /\ UNCHANGED << pathVars, diskVars, caller, max_workers, scanVars, tasks, consumed,
                    lockVars, result, guiVars, progress_calls, hist, faults >>

\* ThreadPoolExecutor(max_workers=max_workers)
CreatePool ==
    /\ cpc = "pool"
    /\ Quiet(Coordinator)
    /\ cpc' = IF ExecutorAccepts(max_workers) THEN "submit" ELSE "raise"
    /\ UNCHANGED << pathVars, diskVars, caller, max_workers, scanVars, poolVars, cpend,
                    lockVars, result, guiVars, progress_calls, hist, faults >>

\* executor.submit(self.process_single_addon, addon_id, idx, total) for
\* the next addon of addons_to_process.
Submit ==
    /\ cpc = "submit"
    /\ LET idx == Len(tasks) + 1
       IN  /\ tasks' = Append(tasks, NewTask(addons_to_process[idx], idx))
           /\ cpc' = IF idx = Len(addons_to_process) THEN "collect" ELSE "submit"
    /\ UNCHANGED << pathVars, diskVars, caller, max_workers, scanVars, completed,
                    total_to_process, consumed, cpend, lockVars, result, guiVars,
                    progress_calls, hist, faults >>

\* A future that counts as finished as soon as a thread has taken it.
FinishedOrRunning(t) == tasks[t].st # "queued"

\* future.done(): the call returned or raised.
Finished(t) == tasks[t].st \in { "done", "raised" }

\* Where process_addons goes after future.result(): the except clause
\* when the future raised.
AfterResultUncaught(st) == IF st = "raised" THEN "raise" ELSE "collect"

AfterResult(st) == IF st = "raised" THEN "collect_err" ELSE "collect"

\* update_progress(completed, total_to_process) after completed += 1.
ProgressNoIncrement(n, total) == << n, total >>

\* An item counted in the try block and again in the except clause.
ProgressDoubleCount(n, total) == << n + 2, total >>

ProgressArgs(n, total) == << n + 1, total >>

\* as_completed yields a finished future; future.result() returns or raises.
Collect(t) ==
    /\ cpc = "collect"
    /\ Quiet(Coordinator)
    /\ t \in Workers \ consumed
    /\ Finished(t)
    /\ consumed' = consumed \cup {t}
    /\ cpc' = AfterResult(tasks[t].st)
    /\ IF tasks[t].st = "raised"
       THEN /\ cpend' = IF AfterResult(tasks[t].st) = "collect_err"
                        THEN << Line("error_processing", tasks[t].id, TRUE) >>
                        ELSE <<>>
            /\ UNCHANGED << completed, progress_calls >>
       ELSE /\ completed' = ProgressArgs(completed, total_to_process)[1]
            /\ progress_calls' =
                  Append(progress_calls, ProgressArgs(completed, total_to_process))
            /\ UNCHANGED cpend
    /\ UNCHANGED << pathVars, diskVars, caller, max_workers, scanVars, total_to_process,
                    tasks, lockVars, result, guiVars, hist, faults >>

\* The rest of the except clause, after safe_log returned.
CollectErr ==
    /\ cpc = "collect_err"
    /\ Quiet(Coordinator)
    /\ completed' = ProgressArgs(completed, total_to_process)[1]
    /\ progress_calls' = Append(progress_calls, ProgressArgs(completed, total_to_process))
    /\ cpc' = "collect"
    /\ UNCHANGED << pathVars, diskVars, caller, max_workers, scanVars, total_to_process,
                    tasks, consumed, cpend, lockVars, result, guiVars, hist,
                    faults >>

\* as_completed is exhausted and the with block is left.
PoolExit ==
    /\ cpc = "collect"
    /\ Quiet(Coordinator)
    /\ consumed = Workers
    /\ cpend' = << Line("completed_processing", NoId, FALSE),
                   Line("total_in_library", NoId, FALSE) >>
    /\ cpc' = "return_true"
    /\ UNCHANGED << pathVars, diskVars, caller, max_workers, scanVars, poolVars,
                    lockVars, result, guiVars, progress_calls, hist, faults >>

\* process_addons returns True or lets an exception out; leaving the with
\* block waits for every submitted future (shutdown(wait=True)). The GUI's
\* process_thread then posts on_processing_complete / on_processing_error.
Return ==
    /\ cpc \in { "return_true", "raise" }
    /\ Quiet(Coordinator)
    /\ \A t \in Workers : Finished(t)
    /\ result' = IF cpc = "return_true" THEN "true" ELSE "raised"
    /\ cpc' = "idle"
    /\ caller' = "none"
    /\ max_workers' = IntArg(6)
    /\ ui_events' = IF caller = "gui"
                    THEN Append(ui_events, IF cpc = "return_true" THEN "complete" ELSE "error")
                    ELSE ui_events
    /\ window' = IF caller = "gui" THEN [window EXCEPT !.batch = @ - 1] ELSE window
    /\ UNCHANGED << pathVars, diskVars, scanVars, poolVars, cpend, lockVars,
                    processing, gui_error, progress_calls, hist, faults >>

(* ------------------------ process_single_addon ------------------------ *)
Running == { t \in Workers : tasks[t].st = "running" }

WorkerLine(t, msg) == Line(msg, tasks[t].id, TRUE)

workerFrame ==
    << pathVars, workshop, cache_gma, cpc, caller, max_workers, scanVars, completed,
       total_to_process, consumed, cpend, lockVars, result, guiVars, progress_calls,
       hist >>

\* A pool thread takes the oldest queued future and starts
\* process_single_addon, whose first statement logs the item.
TaskStart(t) ==
    /\ t \in Workers
    /\ tasks[t].st = "queued"
    /\ \A u \in Workers : u < t => tasks[u].st # "queued"
    /\ Cardinality(Running) < max_workers.v
    /\ tasks' = [tasks EXCEPT ![t].st = "running", ![t].pc = "fetch",
                              ![t].pend = << WorkerLine(t, "item_begin") >>]
    /\ UNCHANGED << workerFrame, out_root, out, faults >>

\* get_addon_name and the choice of the folder name.
Fetch(t) ==
    /\ t \in Running
    /\ tasks[t].pc = "fetch"
    /\ Quiet(t)
    /\ \E resp \in Responses :
        LET got == GetAddonName(resp)
        IN  tasks' = [tasks EXCEPT
                ![t].name = ResolveName(tasks[t].id, got),
                ![t].got = IF ~got.some \/ got.v = <<>> THEN "notitle" ELSE "title",
                ![t].pend =
                    (IF resp.kind = "exception"
                     THEN << WorkerLine(t, "fetch_error") >> ELSE <<>>)
                    \o << WorkerLine(t, IF UseFallback(got) THEN "no_name"
                                        ELSE "found_name") >>,
                ![t].pc = "copy"]
    /\ UNCHANGED << workerFrame, out_root, out, faults >>

EmptyDir(addon_id) ==
    [ src |-> addon_id, complete |-> FALSE, gma |-> FALSE, marker |-> NoMarker,
      unpacked |-> FALSE ]

\* shutil.copytree, first half: os.makedirs(dest) raises FileExistsError
\* when the destination exists, may fail for another reason, or creates
\* the directory.
CopyBegin(t) ==
    /\ t \in Running
    /\ tasks[t].pc = "copy"
    /\ Quiet(t)
    /\ LET dest == tasks[t].name
       IN  IF dest \in DOMAIN out
           THEN /\ tasks' = [tasks EXCEPT ![t].copy = "exists", ![t].pc = "shortcut",
                                          ![t].pend = << WorkerLine(t, "folder_exists") >>]
                /\ UNCHANGED << out_root, out, faults >>
           ELSE \/ /\ faults < MaxFaults
                   /\ faults' = faults + 1
                   /\ tasks' = [tasks EXCEPT ![t].copy = "error", ![t].pc = "end",
                                             ![t].pend = << WorkerLine(t, "copy_error") >>]
                   /\ UNCHANGED << out_root, out >>
                \/ /\ out' = out @@ (dest :> EmptyDir(tasks[t].id))
                   /\ out_root' = TRUE
                   /\ tasks' = [tasks EXCEPT ![t].pc = "copying"]
                   /\ UNCHANGED faults
    /\ UNCHANGED workerFrame

\* shutil.copytree, second half: the files are copied, or an error stops
\* the copy and leaves what was copied so far.
CopyEnd(t) ==
    /\ t \in Running
    /\ tasks[t].pc = "copying"
    /\ LET dest == tasks[t].name
       IN  \/ /\ out' = [out EXCEPT ![dest].complete = TRUE,
                                    ![dest].gma = (tasks[t].id \in GmaIds)]
              /\ tasks' = [tasks EXCEPT ![t].copy = "ok", ![t].pc = "shortcut",
                                        ![t].pend = << WorkerLine(t, "copied") >>]
              /\ UNCHANGED faults
           \/ /\ faults < MaxFaults
              /\ faults' = faults + 1
              /\ tasks' = [tasks EXCEPT ![t].copy = "error", ![t].pc = "end",
                                        ![t].pend = << WorkerLine(t, "copy_error") >>]
              /\ UNCHANGED out
    /\ UNCHANGED << workerFrame, out_root >>

\* A shortcut test that never finds the file missing.
ShortcutNeverMissing(dest) == FALSE

\* `not os.path.exists(shortcut_path)` for the shortcut file of dest.
ShortcutMissing(dest) == ~out[dest].marker.exists

\* `if not os.path.exists(shortcut_path)` of process_single_addon.
ShortcutCheck(t) ==
    /\ t \in Running
    /\ tasks[t].pc = "shortcut"
    /\ Quiet(t)
    /\ IF ShortcutMissing(tasks[t].name)
       THEN tasks' = [tasks EXCEPT ![t].pc = "write_shortcut"]
       ELSE tasks' = [tasks EXCEPT ![t].mark = "kept", ![t].pc = "decompile"]
    /\ UNCHANGED << workerFrame, out_root, out, faults >>

\* create_workshop_shortcut: the file is written, or open/write fails and
\* leaves no file or an empty one; the failure is logged, not raised.
CreateWorkshopShortcut(t) ==
    /\ t \in Running
    /\ tasks[t].pc = "write_shortcut"
    /\ LET dest == tasks[t].name
       IN  \/ /\ out' = [out EXCEPT ![dest].marker =
                              [exists |-> TRUE, content |-> MarkerContent(tasks[t].id)]]
              /\ tasks' = [tasks EXCEPT ![t].mark = "written", ![t].pc = "decompile",
                                        ![t].pend = << WorkerLine(t, "shortcut_created") >>]
              /\ UNCHANGED faults
           \/ /\ faults < MaxFaults
              /\ faults' = faults + 1
              /\ \E left \in { out[dest].marker, [exists |-> TRUE, content |-> <<>>] } :
                    out' = [out EXCEPT ![dest].marker = left]
              /\ tasks' = [tasks EXCEPT ![t].mark = "failed", ![t].pc = "decompile",
                                        ![t].pend = << WorkerLine(t, "shortcut_error") >>]
    /\ UNCHANGED << workerFrame, out_root >>

\* decompile_gma_files up to the os.walk of the destination: no gmad, or a
\* .gma found by the walk and handed to gmad, or no .gma found.
DecompileGmaFiles(t) ==
    /\ t \in Running
    /\ tasks[t].pc = "decompile"
    /\ Quiet(t)
    /\ LET dest == tasks[t].name
       IN  IF Falsy(gmad_path)
           THEN tasks' = [tasks EXCEPT ![t].unpack = "skipped", ![t].pc = "end",
                                       ![t].pend = << WorkerLine(t, "no_gmad") >>]
           ELSE IF out[dest].gma
           THEN tasks' = [tasks EXCEPT ![t].pc = "run_gma",
                                       ![t].pend = << WorkerLine(t, "attempt") >>]
           ELSE tasks' = [tasks EXCEPT ![t].pc = "cache"]
    /\ UNCHANGED << workerFrame, out_root, out, faults >>

\* A fallback that looks into the cache whenever there is a cache folder.
UseCacheAlways(gma_found, cache) == ~Falsy(cache)

\* The condition of the cache fallback: "not gma_found and self.cache_path".
UseCache(gma_found, cache) == ~gma_found /\ ~Falsy(cache)

\* gma_found after the walk: a .gma of the destination was handed to gmad.
GmaFound(t) == tasks[t].unpack \in { "ok_folder", "failed_folder" }

\* decompile_gma_files after the walk: the probe of <cache>/<id>.gma, the
\* note that there is no cache folder, or nothing more to do.
CacheFallback(t) ==
    /\ t \in Running
    /\ tasks[t].pc = "cache"
    /\ Quiet(t)
    /\ IF UseCache(GmaFound(t), cache_path)
       THEN IF tasks[t].id \in cache_gma
            THEN tasks' = [tasks EXCEPT ![t].pc = "run_cache",
                              ![t].pend = << WorkerLine(t, "checking_cache"),
                                             WorkerLine(t, "found_cached") >>]
            ELSE tasks' = [tasks EXCEPT ![t].unpack = "not_in_cache", ![t].pc = "end",
                              ![t].pend = << WorkerLine(t, "checking_cache"),
                                             WorkerLine(t, "not_in_cache") >>]
       ELSE IF ~GmaFound(t)
       THEN tasks' = [tasks EXCEPT ![t].unpack = "no_cache", ![t].pc = "end",
                                   ![t].pend = << WorkerLine(t, "no_gma_no_cache") >>]
       ELSE tasks' = [tasks EXCEPT ![t].pc = "end"]
    /\ UNCHANGED << workerFrame, out_root, out, faults >>

\* A tool failure that leaves process_single_addon as an exception.
ToolFailedRaises(t, from, why) ==
    [tasks[t] EXCEPT !.unpack = "failed_" \o from, !.st = "raised", !.pc = "done"]

\* The item after a failed gmad run: decompile_single_gma logs the reason
\* and returns False, decompile_gma_files logs the failure and goes on.
ToolFailed(t, from, why) ==
    [tasks[t] EXCEPT !.unpack = "failed_" \o from,
                     !.pc = IF from = "folder" THEN "cache" ELSE "end",
                     !.pend = << WorkerLine(t, why), WorkerLine(t, "decompile_failed") >>]

\* decompile_single_gma: exit code 0, or a non-zero exit code, a timeout
\* or an exception, each logged and turned into False.
DecompileSingleGma(t) ==
    /\ t \in Running
    /\ tasks[t].pc \in { "run_gma", "run_cache" }
    /\ Quiet(t)
    /\ LET dest == tasks[t].name
           from == IF tasks[t].pc = "run_gma" THEN "folder" ELSE "cache"
       IN  \/ /\ out' = [out EXCEPT ![dest].unpacked = TRUE]
              /\ tasks' = [tasks EXCEPT ![t].unpack = "ok_" \o from,
                                        ![t].pc = IF from = "folder" THEN "cache" ELSE "end",
                                        ![t].pend = << WorkerLine(t, "decompiled") >>]
              /\ UNCHANGED faults
           \/ /\ faults < MaxFaults
              /\ faults' = faults + 1
              /\ \E why \in { "tool_error", "tool_timeout", "tool_exception" } :
                    tasks' = [tasks EXCEPT ![t] = ToolFailed(t, from, why)]
              /\ UNCHANGED out
    /\ UNCHANGED << workerFrame, out_root >>

\* An executor that puts a returned item back into its queue.
TaskEndRequeue(t) ==
    /\ t \in Running
    /\ tasks[t].pc = "end"
    /\ Quiet(t)
    /\ tasks' = [tasks EXCEPT ![t].st = "queued", ![t].pc = "queued"]
    /\ UNCHANGED << workerFrame, out_root, out, faults >>

\* process_single_addon returns and its future is done.
TaskEnd(t) ==
    /\ t \in Running
    /\ tasks[t].pc = "end"
    /\ Quiet(t)
    /\ tasks' = [tasks EXCEPT ![t].st = "done", ![t].pc = "done"]
    /\ UNCHANGED << workerFrame, out_root, out, faults >>

\* An exception no handler of process_single_addon catches ends the item:
\* the future stores it.
TaskRaise(t) ==
    /\ t \in Running
    /\ tasks[t].pc \in { "fetch", "decompile" }
    /\ Quiet(t)
    /\ faults < MaxFaults
    /\ faults' = faults + 1
    /\ tasks' = [tasks EXCEPT ![t].st = "raised", ![t].pc = "done"]
    /\ UNCHANGED << workerFrame, out_root, out >>

(* --------------------------- specification ---------------------------- *)
Threads == { Coordinator } \cup (1..MaxAddons)

\* Every step but the set-up, the calls of process_addons and the gmad run.
Steps ==
    \/ \E i \in AddonIds : AddAddon(i)
    \/ OnProcessingComplete
    \/ OnProcessingError
    \/ ListWorkshop
    \/ ScanStep
    \/ ScanDone
    \/ CreatePool
    \/ Submit
    \/ \E t \in Threads : Collect(t)
    \/ CollectErr
    \/ PoolExit
    \/ Return
    \/ \E t \in Threads : SafeLogEnter(t)
    \/ \E t \in Threads : SafeLogExit(t)
    \/ \E t \in Threads : LogEnter(t)
    \/ \E t \in Threads : LogExit(t)
    \/ \E t \in Threads : TaskStart(t)
    \/ \E t \in Threads : Fetch(t)
    \/ \E t \in Threads : CopyBegin(t)
    \/ \E t \in Threads : CopyEnd(t)
    \/ \E t \in Threads : ShortcutCheck(t)
    \/ \E t \in Threads : CreateWorkshopShortcut(t)
    \/ \E t \in Threads : DecompileGmaFiles(t)
    \/ \E t \in Threads : TaskEnd(t)
    \/ \E t \in Threads : TaskRaise(t)

\* One batch with any worker count, started by a program or by the GUI, on
\* a translator that found no gmad.
Next ==
    \/ Initialize(<<FALSE, FALSE>>)
    \/ \E mw \in MaxWorkersArgs : DirectCall(mw, MaxBatches)
    \/ \E text \in SpinboxTexts : StartProcessing(text, MaxBatches)
    \/ Steps

Spec == Init /\ [][Next]_vars

\* Several batches in a row, each with one worker, with or without gmad
\* and the cache folder.
NextRuns ==
    \/ \E found \in Found : Initialize(found)
    \/ DirectCall(IntArg(1), MaxCalls)
    \/ StartProcessing(<<"1">>, MaxCalls)
    \/ \E t \in Threads : DecompileSingleGma(t)
    \/ \E t \in Threads : CacheFallback(t)
    \/ Steps

SpecRuns == Init /\ [][NextRuns]_vars

\* The steps of the thread that runs process_addons.
CoordinatorStep ==
    \/ ListWorkshop
    \/ ScanStep
    \/ ScanDone
    \/ CreatePool
    \/ Submit
    \/ \E t \in Threads : Collect(t)
    \/ CollectErr
    \/ PoolExit
    \/ Return
    \/ SafeLogEnter(Coordinator)
    \/ SafeLogExit(Coordinator)
    \/ LogEnter(Coordinator)
    \/ LogExit(Coordinator)

\* The steps of the pool thread that runs the t-th submitted item.
WorkerStep(t) ==
    \/ TaskStart(t)
    \/ Fetch(t)
    \/ CopyBegin(t)
    \/ CopyEnd(t)
    \/ ShortcutCheck(t)
    \/ CreateWorkshopShortcut(t)
    \/ DecompileGmaFiles(t)
    \/ TaskEnd(t)
    \/ SafeLogEnter(t)
    \/ SafeLogExit(t)
    \/ LogEnter(t)
    \/ LogExit(t)

\* The batch of Spec with threads that are scheduled again and again:
\* every call an item makes (HTTP request with its timeout, copy, file
\* write, callback) returns, and so does every call of process_addons.
SpecLive ==
    /\ Init
    /\ [][Next]_vars
    /\ WF_vars(CoordinatorStep)
    /\ \A t \in 1..MaxAddons : WF_vars(WorkerStep(t))

\* The format_size calls that are about to be made.
SizeFrames ==
    { [fn |-> "format_size", n |-> n, done |-> FALSE, text |-> <<>>] : n \in SizeInputs }

\* format_size(n) is called and returns its text.
CallFormatSize ==
    /\ frame.fn = "format_size"
    /\ ~frame.done
    /\ frame' = [frame EXCEPT !.done = TRUE, !.text = FormatSize(frame.n)]
    /\ UNCHANGED << workshop_path, translated_path, gmad_path, cache_path, diskVars, cpc,
                    caller, max_workers, scanVars, poolVars, cpend, lockVars, result,
                    guiVars, progress_calls, hist, faults >>

InitSize == InitBase /\ frame \in SizeFrames

NextSize == CallFormatSize

SpecSize == InitSize /\ [][NextSize]_vars

\* All set_manual_paths calls on a fresh translator.
InitPaths == InitBase /\ frame \in ManualFrames

NextPaths == SetManualPaths

SpecPaths == InitPaths /\ [][NextPaths]_vars

\* The find_steam_workshop calls that are about to be made.
FindFrames ==
    { [fn |-> "find_steam_workshop", existing |-> e, ret |-> "pending"] :
        e \in WorkshopDisks }

\* find_steam_workshop() is called on a new translator and returns.
CallFindSteamWorkshop ==
    /\ frame.fn = "find_steam_workshop"
    /\ frame.ret = "pending"
    /\ LET r == FindSteamWorkshop(frame.existing)
       IN  /\ frame' = [frame EXCEPT !.ret = IF r.ret THEN "true" ELSE "false"]
           /\ workshop_path' = IF r.ret THEN r.path ELSE workshop_path
    /\ UNCHANGED << translated_path, gmad_path, cache_path, diskVars, cpc, caller,
                    max_workers, scanVars, poolVars, cpend, lockVars, result, guiVars,
                    progress_calls, hist, faults >>

InitFind == InitBase /\ frame \in FindFrames

NextFind == CallFindSteamWorkshop

SpecFind == InitFind /\ [][NextFind]_vars

\* initialize() and set_manual_paths() calls in any order around one batch
\* with one worker on a workshop folder with one addon.
NextSetup ==
    \/ \E found \in Found : Initialize(found)
    \/ \E args \in SetupArgs : CallSetManualPaths(args)
    \/ SetManualPaths
    \/ DirectCall(IntArg(1), MaxBatches)
    \/ ListWorkshop
    \/ ScanStep
    \/ ScanDone
    \/ CreatePool
    \/ Submit
    \/ \E t \in Threads : Collect(t)
    \/ CollectErr
    \/ PoolExit
    \/ Return
    \/ \E t \in Threads : SafeLogEnter(t)
    \/ \E t \in Threads : SafeLogExit(t)
    \/ \E t \in Threads : LogEnter(t)
    \/ \E t \in Threads : LogExit(t)
    \/ \E t \in Threads : TaskStart(t)
    \/ \E t \in Threads : Fetch(t)
    \/ \E t \in Threads : CopyBegin(t)
    \/ \E t \in Threads : CopyEnd(t)
    \/ \E t \in Threads : ShortcutCheck(t)
    \/ \E t \in Threads : CreateWorkshopShortcut(t)
    \/ \E t \in Threads : DecompileGmaFiles(t)
    \/ \E t \in Threads : DecompileSingleGma(t)
    \/ \E t \in Threads : CacheFallback(t)
    \/ \E t \in Threads : TaskEnd(t)
    \/ \E t \in Threads : TaskRaise(t)

SpecSetup == Init /\ [][NextSetup]_vars

(* ----------------------------- the window ----------------------------- *)
\* What stays as it is when only the window, its threads and the folders
\* they set or delete change.
batchFrame ==
    << workshop, cache_gma, cpc, caller, max_workers, scanVars, poolVars, cpend,
       lockVars, result, progress_calls, hist, faults >>

\* The Start button is clicked: start_processing, the batch being a thread
\* of which only the start and the end are looked at.
ClickStart(text) ==
    /\ window.start
    /\ ~window.dialog
    /\ IF AlreadyProcessing
       THEN /\ window' = [window EXCEPT !.last = "busy"]
            /\ UNCHANGED << processing, gui_error >>
       ELSE IF ~GuiThreadsValid(text)
            THEN /\ gui_error' = TRUE
                 /\ window' = [window EXCEPT !.last = "invalid"]
                 /\ UNCHANGED processing
            ELSE /\ window.batch < MaxGuiThreads
                 /\ processing' = TRUE
                 /\ gui_error' = FALSE
                 /\ window' = [ThreadStarted(window) EXCEPT !.last = "started"]
    /\ UNCHANGED << pathVars, out_root, out, ui_events, batchFrame >>

\* process_thread ends: process_addons returned or raised, and the thread
\* posts on_processing_complete or on_processing_error.
ProcessThreadEnds(ok) ==
    /\ window.batch > 0
    /\ Len(ui_events) < MaxEvents
    /\ window' = [window EXCEPT !.batch = @ - 1]
    /\ ui_events' = Append(ui_events, IF ok THEN "complete" ELSE "error")
    /\ UNCHANGED << pathVars, out_root, out, processing, gui_error, batchFrame >>

\* The Initialize / Re-Initialize button is clicked: initialize_translator.
ClickInitialize ==
    /\ window.init
    /\ ~window.dialog
    /\ window.initing < MaxGuiThreads
    /\ window' = [window EXCEPT !.init = FALSE, !.initing = @ + 1]
    /\ UNCHANGED << pathVars, out_root, out, processing, ui_events, gui_error,
                    batchFrame >>

\* init_thread, first statement: self.translator becomes a new translator,
\* none of whose paths is set.
InitThreadStarts ==
    /\ window.initing > window.made
    /\ window' = [window EXCEPT !.made = @ + 1]
    /\ workshop_path' = NoPath
    /\ translated_path' = NoPath
    /\ gmad_path' = NoPath
    /\ cache_path' = NoPath
    /\ UNCHANGED << frame, out_root, out, processing, ui_events, gui_error,
                    batchFrame >>

\* init_thread, the rest: initialize() is called on self.translator and
\* the thread posts on_init_success or on_init_failure.
InitThreadEnds(ok, found) ==
    /\ window.made > 0
    /\ Len(ui_events) < MaxEvents
    /\ window' = [window EXCEPT !.initing = @ - 1, !.made = @ - 1]
    /\ workshop_path' = IF ok THEN WorkshopFound ELSE workshop_path
    /\ gmad_path' = IF ok /\ found[1] THEN GmadFound ELSE gmad_path
    /\ cache_path' = IF ok THEN FindCacheFolder(found, cache_path) ELSE cache_path
    /\ translated_path' =
          IF ok THEN PathArg(CreateTranslatedFolder(BaseDisk, WorkshopFound.v).path)
          ELSE translated_path
    /\ out_root' = (ok \/ out_root)
    /\ ui_events' = Append(ui_events, IF ok THEN "init_success" ELSE "init_failure")
    /\ UNCHANGED << frame, out, processing, gui_error, batchFrame >>

\* The widgets on_init_success and on_manual_init_success enable.
Ready(w) == [w EXCEPT !.start = TRUE, !.open = TRUE, !.delete = TRUE, !.init = TRUE]

\* on_init_success, run by the UI thread.
OnInitSuccess ==
    /\ ui_events # <<>>
    /\ Head(ui_events) = "init_success"
    /\ ui_events' = Tail(ui_events)
    /\ window' = Ready(window)
    /\ UNCHANGED << pathVars, out_root, out, processing, gui_error, batchFrame >>

\* on_init_failure, run by the UI thread: the user may ask for the manual
\* path dialog, which takes the clicks of the window while it is open.
OnInitFailure ==
    /\ ui_events # <<>>
    /\ Head(ui_events) = "init_failure"
    /\ ui_events' = Tail(ui_events)
    /\ \E yes \in BOOLEAN : window' = [window EXCEPT !.init = TRUE, !.dialog = yes]
    /\ UNCHANGED << pathVars, out_root, out, processing, gui_error, batchFrame >>

\* What is typed into the dialog: a valid workshop folder or a missing one.
DialogArgs ==
    { << PathArg(<< Sep, "s", Sep, "w" >>), NoPath, NoPath >>,
      << PathArg(<< Sep, "s", Sep, "q" >>), NoPath, NoPath >> }

\* Apply is clicked in the dialog: validate_and_apply calls
\* set_manual_paths.
ValidateAndApply(args) ==
    /\ window.dialog
    /\ CallSetManualPaths(args)

\* set_manual_paths returned success: the dialog closes and
\* on_manual_init_success runs.
OnManualInitSuccess ==
    /\ window.dialog
    /\ frame.fn = "set_manual_paths"
    /\ frame.ret = "ok"
    /\ frame' = NoFrame
    /\ window' = [Ready(window) EXCEPT !.dialog = FALSE]
    /\ UNCHANGED << workshop_path, translated_path, gmad_path, cache_path, out_root,
                    out, processing, ui_events, gui_error, batchFrame >>

\* Cancel is clicked in the dialog.
DialogCancel ==
    /\ window.dialog
    /\ frame.fn = "set_manual_paths" => frame.ret # "pending"
    /\ window' = [window EXCEPT !.dialog = FALSE]
    /\ UNCHANGED << pathVars, out_root, out, processing, ui_events, gui_error,
                    batchFrame >>

\* The Delete button is clicked: delete_translated_folder returns after a
\* message when there is no translated path or no folder, and when the
\* confirmation is declined; else it disables widgets and starts its thread.
ClickDelete(confirm) ==
    /\ window.delete
    /\ ~window.dialog
    /\ IF Falsy(translated_path) \/ ~out_root \/ ~confirm
       THEN UNCHANGED window
       ELSE /\ window.deleting < MaxGuiThreads
            /\ window' = [window EXCEPT !.delete = FALSE, !.start = FALSE,
                                        !.open = FALSE, !.spinbox = FALSE,
                                        !.deleting = @ + 1]
    /\ UNCHANGED << pathVars, out_root, out, processing, ui_events, gui_error,
                    batchFrame >>

\* delete_with_progress ends: the folder is gone and on_deletion_complete
\* is posted, or an exception came out and on_deletion_error is posted.
DeleteThreadEnds(ok) ==
    /\ window.deleting > 0
    /\ Len(ui_events) < MaxEvents
    /\ ok => out_root
    /\ window' = [window EXCEPT !.deleting = @ - 1]
    /\ out_root' = (out_root /\ ~ok)
    /\ out' = IF ok THEN <<>> ELSE out
    /\ ui_events' = Append(ui_events, IF ok THEN "deletion_complete" ELSE "deletion_error")
    /\ UNCHANGED << pathVars, processing, gui_error, batchFrame >>

\* on_deletion_complete, run by the UI thread.
OnDeletionComplete ==
    /\ ui_events # <<>>
    /\ Head(ui_events) = "deletion_complete"
    /\ ui_events' = Tail(ui_events)
    /\ window' = [window EXCEPT !.delete = TRUE, !.start = TRUE, !.spinbox = TRUE,
                                !.open = FALSE]
    /\ UNCHANGED << pathVars, out_root, out, processing, gui_error, batchFrame >>

\* on_deletion_error, run by the UI thread.
OnDeletionError ==
    /\ ui_events # <<>>
    /\ Head(ui_events) = "deletion_error"
    /\ ui_events' = Tail(ui_events)
    /\ window' = [window EXCEPT !.delete = TRUE, !.start = TRUE, !.open = TRUE,
                                !.spinbox = TRUE]
    /\ UNCHANGED << pathVars, out_root, out, processing, gui_error, batchFrame >>

\* The window: clicks, the ends of its background threads and the
\* callbacks they post, in any order.
NextGui ==
    \/ \E text \in SpinboxTexts : ClickStart(text)
    \/ \E ok \in BOOLEAN : ProcessThreadEnds(ok)
    \/ OnProcessingComplete
    \/ OnProcessingError
    \/ ClickInitialize
    \/ InitThreadStarts
    \/ \E ok \in BOOLEAN, found \in Found : InitThreadEnds(ok, found)
    \/ OnInitSuccess
    \/ OnInitFailure
    \/ \E args \in DialogArgs : ValidateAndApply(args)
    \/ SetManualPaths
    \/ OnManualInitSuccess
    \/ DialogCancel
    \/ \E confirm \in BOOLEAN : ClickDelete(confirm)
    \/ \E ok \in BOOLEAN : DeleteThreadEnds(ok)
    \/ OnDeletionComplete
    \/ OnDeletionError

\* The window is opened on a workshop folder with one addon.
InitGui == Init /\ workshop = OtherEntries \cup { AddonEntry(<<"1">>) }

SpecGui == InitGui /\ [][NextGui]_vars

\* The window under fair scheduling: every background thread comes to its
\* end and the UI thread runs every callback posted to it. Clicks are up
\* to the user and are not required to happen. A thread does not wait for
\* room in the queue of the UI thread, so its end is strongly fair: the
\* bound on the queue only delays it.
SpecGuiLive ==
    /\ SpecGui
    /\ SF_vars(\E ok \in BOOLEAN : ProcessThreadEnds(ok))
    /\ WF_vars(OnProcessingComplete)
    /\ WF_vars(OnProcessingError)
    /\ WF_vars(InitThreadStarts)
    /\ SF_vars(\E ok \in BOOLEAN, found \in Found : InitThreadEnds(ok, found))
    /\ WF_vars(OnInitSuccess)
    /\ WF_vars(OnInitFailure)
    /\ SF_vars(\E ok \in BOOLEAN : DeleteThreadEnds(ok))
    /\ WF_vars(OnDeletionComplete)
    /\ WF_vars(OnDeletionError)

(* --------------------------- widget callbacks -------------------------- *)
\* The thread that runs mainloop and with it every callback posted by
\* root.after; it is neither the thread of a batch nor one of its pool.
UiThread == -2

\* The threads that are inside TranslatorGUI.log_message: the window hands
\* log_message to its translator as log_callback, and log calls it in the
\* thread that logs.
InLogMessage == IF caller = "gui" THEN in_log ELSE {}

\* The threads that have run TranslatorGUI.update_progress in the running
\* batch of the window: process_addons calls the progress callback itself
\* after each future.
InUpdateProgress ==
    IF caller = "gui" /\ progress_calls # <<>> THEN { Coordinator } ELSE {}

(* ------------------------------- claims ------------------------------- *)
\* Subdirectories of the translated folder whose marker encodes addon_id.
MarkerDirs(addon_id) ==
    { d \in DOMAIN out :
        out[d].marker.exists /\ EncodedId(out[d].marker.content) = addon_id }

\* Subdirectories holding the complete marker text written for addon_id.
WrittenFor(addon_id) ==
    { d \in DOMAIN out :
        out[d].marker = [exists |-> TRUE, content |-> MarkerContent(addon_id)] }

Discovered == Range(addon_folders)

\* The ids the already-processed loop has classified so far.
Scanned == { addon_folders[k] : k \in 1..(scan_idx - 1) }

ToProcess == Range(addons_to_process)

\* A first batch on a fresh translated folder has returned True, nothing
\* failed during it and the workshop folder is as it was listed.
FirstBatchReturned ==
    /\ cpc = "idle"
    /\ result = "true"
    /\ hist.calls = 1
    /\ ~hist.dirty
    /\ faults = 0

\* C1: after one process_addons call in which nothing failed, every
\* discovered addon id has exactly one output subdirectory whose marker
\* encodes that id.
C1_EveryIdHasOneMarker ==
    FirstBatchReturned =>
        \A i \in Discovered : Cardinality(MarkerDirs(i)) = 1

\* The call under way, or the last one, directly follows a call that
\* returned True, with the workshop folder unchanged in between and no
\* failure so far, and its already-processed loop is over.
RepeatedCallScanned ==
    /\ hist.calls >= 2
    /\ hist.prev_ok
    /\ ~hist.changed
    /\ faults = 0
    /\ cpc \notin { "begin", "scan" }

\* C2: the second of two process_addons calls in a row, with the workshop
\* folder unchanged, skips every discovered addon and dispatches nothing.
C2_SecondCallSkipsAll ==
    RepeatedCallScanned =>
        /\ skipped = Len(addon_folders)
        /\ addons_to_process = <<>>
        /\ tasks = <<>>

C4_SkippedOnlyByOwnMarker ==
    cpc = "scan" =>
        \A i \in Scanned : i \notin ToProcess => MarkerDirs(i) # {}

\* C5: an exception raised by one item never leaves process_addons, and
\* when process_addons returns every dispatched item has finished and has
\* been counted, the raising ones included.
C5_ItemFailureContained ==
    /\ (cpc = "raise" \/ result = "raised") => tasks = <<>>
    /\ (cpc \in { "return_true", "idle" } /\ tasks # <<>>) =>
        /\ Len(tasks) = Len(addons_to_process)
        /\ \A t \in Workers : Finished(t)
        /\ consumed = Workers
        /\ completed = Len(tasks)

\* C5 witness: a batch returned True in which one item raised and another
\* one ran to its end.
C5_Witness ==
    /\ cpc = "idle"
    /\ result = "true"
    /\ \E t, u \in Workers :
        /\ tasks[t].st = "raised"
        /\ tasks[u].st = "done"
        /\ tasks[u].mark = "written"

\* C6: the progress callback is called with (1,N), (2,N), ... in that
\* order, N being the number of dispatched addons, never more often than
\* items have finished, exactly N times by the time process_addons
\* returns, and not at all when nothing is dispatched.
C6_ProgressSequence ==
    /\ \A k \in 1..Len(progress_calls) :
        /\ progress_calls[k] = << k, Len(addons_to_process) >>
        /\ progress_calls[k][2] >= 1
    /\ Len(progress_calls) <= Cardinality({ t \in Workers : Finished(t) })
    /\ Len(progress_calls) = completed
    /\ tasks = <<>> => progress_calls = <<>>
    /\ cpc \in { "return_true", "idle" } => Len(progress_calls) = Len(tasks)

\* C6 witness: two addons were dispatched, one of them raised, and the
\* callback has been called twice.
C6_Witness ==
    /\ cpc = "idle"
    /\ Len(tasks) = 2
    /\ \E t \in Workers : tasks[t].st = "raised"
    /\ progress_calls = << <<1, 2>>, <<2, 2>> >>

\* From the first submit until the with block of the pool is left.
PoolWindow == tasks # <<>> /\ cpc \in { "submit", "collect", "collect_err" }

\* C7: between the first dispatch and the shutdown of the pool at most one
\* thread is inside the log callback, it holds print_lock, and every line
\* a worker or the coordinator emits goes through safe_log.
C7_LogCallsSerialized ==
    PoolWindow =>
        /\ Cardinality(in_log) <= 1
        /\ \A t \in in_log : print_lock = t
        /\ \A t \in { Coordinator } \cup Workers :
            \A k \in 1..Len(Pend(t)) : Pend(t)[k].safe

\* C7 witness: the coordinator is inside the log callback for a failed
\* item while a running worker waits for the lock with a line of its own.
C7_Witness ==
    /\ cpc = "collect_err"
    /\ in_log = { Coordinator }
    /\ \E t \in Running : tasks[t].pend # <<>>

\* C8: no addon is submitted, and no worker runs, before the
\* already-processed check has been evaluated for every discovered addon.
C8_ScanBeforeDispatch ==
    /\ cpc \in { "begin", "scan" } => tasks = <<>>
    /\ tasks # <<>> =>
        /\ scan_idx = Len(addon_folders) + 1
        /\ skipped + Len(addons_to_process) = Len(addon_folders)

\* C8 witness: two addons were discovered and checked, and a worker runs.
C8_Witness ==
    /\ Len(addon_folders) = 2
    /\ scan_idx = 3
    /\ Running # {}

\* The worker counts the specification accepts.
ValidWorkerCount(mw) == mw.type = "int" /\ mw.v >= 1 /\ mw.v <= 20

\* C9: a process_addons call, direct or from the GUI, whose worker count
\* is 0, 21 or not a number dispatches nothing.
C9_WorkerCountValidated ==
    (cpc # "idle" /\ ~ValidWorkerCount(max_workers)) => tasks = <<>>

\* C10: an item whose lookup gave no title is named by the synthetic
\* fallback, and when nothing else fails it ends with its folder copied
\* and its marker written under that name.
C10_NoTitleFallsBack ==
    \A t \in Workers :
        tasks[t].got = "notitle" =>
            /\ tasks[t].name = SyntheticName(tasks[t].id)
            /\ (tasks[t].st = "done" /\ faults = 0) =>
                /\ tasks[t].copy = "ok"
                /\ tasks[t].mark = "written"
                /\ tasks[t].name \in DOMAIN out
                /\ out[tasks[t].name].src = tasks[t].id
                /\ out[tasks[t].name].complete
                /\ tasks[t].name \in MarkerDirs(tasks[t].id)

\* C10 witness: an item without a title has ended, nothing failed, and its
\* marker lies in the folder named after its id.
C10_Witness ==
    \E t \in Workers :
        /\ tasks[t].got = "notitle"
        /\ tasks[t].st = "done"
        /\ faults = 0
        /\ SyntheticName(tasks[t].id) \in MarkerDirs(tasks[t].id)

\* What copytree puts into a destination directory.
Copied(d) == << out[d].src, out[d].complete, out[d].gma >>

\* C11: an item whose destination directory already exists does not copy
\* the source again; when it ends, the marker of its id has been written
\* if the directory had none (unless the write itself failed, which takes
\* an I/O fault), and decompile_gma_files has run, starting gmad when gmad
\* is known and the directory holds a .gma file.
C11_ExistingDestination ==
    /\ [](\A t \in Workers :
            tasks[t].copy = "exists" =>
                /\ tasks[t].name \in DOMAIN out
                /\ tasks[t].pc # "copying"
                /\ tasks[t].st = "done" =>
                    /\ tasks[t].mark \in { "kept", "written", "failed" }
                    /\ tasks[t].mark = "failed" => faults > 0
                    /\ tasks[t].mark = "kept" => out[tasks[t].name].marker.exists
                    /\ tasks[t].mark = "written" =>
                          tasks[t].name \in WrittenFor(tasks[t].id)
                    /\ tasks[t].unpack # "na"
                    /\ (gmad_path # NoPath /\ out[tasks[t].name].gma) =>
                          tasks[t].unpack \in { "ok_folder", "failed_folder" })
    /\ [][\A t \in Running :
            (tasks[t].copy = "exists" /\ tasks'[t].copy = "exists") =>
                (out'[tasks[t].name].src = out[tasks[t].name].src
                 /\ out'[tasks[t].name].complete = out[tasks[t].name].complete
                 /\ out'[tasks[t].name].gma = out[tasks[t].name].gma)]_vars

\* C11 witness: in a second call an item found its directory in place
\* without a marker, wrote the marker and ran gmad on the .gma file the
\* first call had copied.
C11_Witness ==
    /\ hist.calls = 2
    /\ \E t \in Workers :
        /\ tasks[t].copy = "exists"
        /\ tasks[t].st = "done"
        /\ tasks[t].mark = "written"
        /\ tasks[t].unpack = "ok_folder"
        /\ out[tasks[t].name].src = tasks[t].id

\* How process_addons sees a consumed item: future.result() returned, or
\* it raised and the except clause logged "Error processing".
ItemOutcome(t) == IF tasks[t].st = "raised" THEN "failed" ELSE "completed"

\* C12: an item whose copy failed for another reason than an existing
\* destination is a failed item in the outcome of the batch, has written
\* no marker, and the batch goes on to its end.
C12_CopyFailureReported ==
    /\ \A t \in consumed :
        tasks[t].copy = "error" =>
            /\ ItemOutcome(t) = "failed"
            /\ tasks[t].mark = "na"
    /\ (cpc = "idle" /\ \E t \in Workers : tasks[t].copy = "error") =>
        /\ result = "true"
        /\ consumed = Workers

UnpackFailed(t) == tasks[t].unpack \in { "failed_folder", "failed_cache" }

\* C13: a failed gmad run (exit code, timeout or exception, for a .gma of
\* the folder or for the cached one) never makes the item raise or count
\* as failed, and the marker step has run before it and its marker stays
\* in place.
C13_UnpackFailureHarmless ==
    \A t \in Workers :
        UnpackFailed(t) =>
            /\ tasks[t].st # "raised"
            /\ ItemOutcome(t) = "completed"
            /\ tasks[t].mark # "na"
            /\ tasks[t].mark = "written" => tasks[t].name \in WrittenFor(tasks[t].id)
            /\ tasks[t].mark = "kept" => out[tasks[t].name].marker.exists
            /\ (cpc = "idle" /\ t \in consumed) => result = "true"

\* C13 witness: a batch returned True with an item whose cached .gma could
\* not be unpacked and whose marker is written.
C13_Witness ==
    /\ cpc = "idle"
    /\ result = "true"
    /\ \E t \in consumed :
        /\ tasks[t].unpack = "failed_cache"
        /\ tasks[t].st = "done"
        /\ tasks[t].name \in WrittenFor(tasks[t].id)

\* C14: process_addons returns only when every dispatched item has
\* finished, none of them running or never started, and once items are
\* dispatched it does return.
C14_RunsToExhaustion ==
    /\ []((cpc = "idle" /\ tasks # <<>>) =>
            /\ Len(tasks) = Len(addons_to_process)
            /\ \A t \in Workers : tasks[t].st \in { "done", "raised" })
    /\ (tasks # <<>> /\ cpc # "idle") ~> (cpc = "idle")

\* C14 witness: a call returned after both of its two dispatched items had
\* finished.
C14_Witness ==
    /\ cpc = "idle"
    /\ result = "true"
    /\ hist.calls = 1
    /\ Len(tasks) = 2
    /\ \A t \in Workers : tasks[t].st \in { "done", "raised" }
    /\ progress_calls # <<>>

\* The state of a discovered addon in the call under way.
ItemState(i) ==
    IF i \notin Scanned THEN "Discovered"
    ELSE IF i \notin ToProcess THEN "Skipped"
    ELSE LET ts == { t \in Workers : tasks[t].id = i }
         IN  IF ts = {} THEN "Dispatched"
             ELSE LET st == tasks[CHOOSE t \in ts : TRUE].st
                  IN  IF st = "done" THEN "Succeeded"
                      ELSE IF st = "raised" THEN "Failed"
                      ELSE "Dispatched"

ItemMove(a, b) ==
    \/ a = b
    \/ a = "Discovered" /\ b \in { "Skipped", "Dispatched" }
    \/ a = "Dispatched" /\ b \in { "Succeeded", "Failed" }

StRank(st) == IF st = "queued" THEN 0 ELSE IF st = "running" THEN 1 ELSE 2

\* C15: in one call every discovered addon goes from Discovered to
\* Skipped or Dispatched and from Dispatched to Succeeded or Failed and
\* makes no other move; no addon is skipped and dispatched, every
\* dispatched addon is one submitted item, and an item never goes back to
\* the queue or from its end to running.
C15_ItemStateMachine ==
    /\ [](/\ \A j, k \in 1..Len(addon_folders) :
                addon_folders[j] = addon_folders[k] => j = k
          /\ \A j, k \in 1..Len(addons_to_process) :
                addons_to_process[j] = addons_to_process[k] => j = k
          /\ ToProcess \subseteq Scanned
          /\ skipped = Cardinality(Scanned \ ToProcess)
          /\ Len(tasks) <= Len(addons_to_process)
          /\ \A t \in Workers : tasks[t].id = addons_to_process[t])
    /\ [][hist.calls' = hist.calls =>
            /\ \A i \in AddonIds : ItemMove(ItemState(i), ItemState(i)')
            /\ Len(tasks') >= Len(tasks)
            /\ \A t \in Workers :
                /\ tasks'[t].id = tasks[t].id
                /\ StRank(tasks'[t].st) >= StRank(tasks[t].st)
                /\ tasks[t].st \in { "done", "raised" } => tasks'[t].st = tasks[t].st]_vars

\* C15 witness: in a second call one addon has been skipped and another
\* one has been dispatched and has succeeded.
C15_Witness ==
    /\ hist.calls = 2
    /\ cpc = "collect"
    /\ \E i, j \in Discovered :
        /\ ItemState(i) = "Skipped"
        /\ ItemState(j) = "Succeeded"

\* process_addons is about to return True or has returned True.
ReturnsTrue == cpc = "return_true" \/ (cpc = "idle" /\ result = "true")

\* C16: when process_addons returns, the number of discovered addons is
\* skipped + completed and completed is the number of dispatched addons,
\* each one counted once, the raising ones included.
C16_CountsAddUp ==
    ReturnsTrue =>
        /\ Len(addon_folders) = skipped + completed
        /\ completed = Len(addons_to_process)
        /\ completed = total_to_process
        /\ completed = Cardinality(consumed)
        /\ consumed = { t \in Workers : tasks[t].st \in { "done", "raised" } }
        /\ Cardinality({ tasks[t].id : t \in consumed }) = completed

\* C16 witness: a second call returned with one addon skipped and one
\* dispatched addon that raised.
C16_Witness ==
    /\ cpc = "idle"
    /\ result = "true"
    /\ hist.calls = 2
    /\ skipped = 1
    /\ completed = 1
    /\ \E t \in Workers : tasks[t].st = "raised"

\* C17: every failure of the pipeline queues at least one line for the
\* log callback in the thread it happens in: a lookup without a title, a
\* copy failure, a marker write failure, a failed gmad run, and, in the
\* already-processed loop, an output root that cannot be listed and a
\* marker file that cannot be read.
C17_EveryFailureLogged ==
    [][hist'.calls = hist.calls =>
        /\ hist'.unread # hist.unread => cpend' # <<>>
        /\ \A t \in Workers :
            /\ (tasks'[t].got = "notitle" /\ tasks[t].got # "notitle")
                    => tasks'[t].pend # <<>>
            /\ (tasks'[t].copy = "error" /\ tasks[t].copy # "error")
                    => tasks'[t].pend # <<>>
            /\ (tasks'[t].mark = "failed" /\ tasks[t].mark # "failed")
                    => tasks'[t].pend # <<>>
            /\ (UnpackFailed(t)' /\ ~UnpackFailed(t))
                    => tasks'[t].pend # <<>>]_vars

\* C18: a process_addons call whose workshop path is unset, or whose
\* listing of the workshop folder fails, leaves the listing with a raised
\* error and never comes to return True; it dispatches nothing and
\* creates nothing in the translated folder.
C18_NoWorkshopListingRaises ==
    /\ [][(cpc = "begin" /\ cpc' # "begin"
              /\ (workshop_path = NoPath \/ faults' # faults)) => cpc' = "raise"]_vars
    /\ []((cpc # "idle" /\ workshop_path = NoPath) =>
            (cpc # "return_true" /\ tasks = <<>> /\ out = <<>>))
    /\ [](cpc = "raise" => tasks = <<>>)

\* The component list of the folder that holds the entry cs.
Parent(cs) == SubSeq(cs, 1, Len(cs) - 1)

IsDirEntry(fs, cs) == cs \in DOMAIN fs /\ fs[cs].kind = "dir"

IsFileEntry(fs, cs) == cs \in DOMAIN fs /\ fs[cs].kind = "file"

Given(a) == a.some /\ a.v # <<>>

\* The conditions of C19 on the arguments of the call, on the disk as it
\* was when the call was made.
ManualPathsAcceptable ==
    LET fs == frame.disk0
        w == Components(frame.workshop.v)
        g == Components(frame.gmad.v)
        c == Components(frame.cache.v)
    IN  /\ Given(frame.workshop)
        /\ IsDirEntry(fs, w)
        /\ \E e \in DOMAIN fs :
              Len(e) = Len(w) + 1 /\ Parent(e) = w /\ IsDigit(e[Len(e)])
              /\ fs[e].kind = "dir"
        /\ Given(frame.gmad) =>
              (IsFileEntry(fs, g) /\ (fs[g].exec \/ g[Len(g)][Len(g[Len(g)])] = ".exe"))
        /\ Given(frame.cache) => IsDirEntry(fs, c)

\* C19: set_manual_paths succeeds exactly when the workshop path is an
\* existing directory with an all-digit subdirectory, the gmad path, if
\* given, is an existing file that is executable or ends in .exe, and the
\* cache path, if given, is an existing directory; after a success
\* translated_path is the 4000Translated sibling of the workshop folder
\* and that directory exists.
C19_ManualPathsValidated ==
    (frame.fn = "set_manual_paths" /\ frame.ret # "pending") =>
        /\ frame.ret = "ok" <=> ManualPathsAcceptable
        /\ frame.ret = "ok" =>
            /\ Components(translated_path.v)
                  = Parent(Components(frame.workshop.v)) \o << TranslatedName >>
            /\ IsDirEntry(frame.disk, Components(translated_path.v))

\* The position of the highest limb of n that is not 0, or 1 for n = 0.
TopLimb(n) ==
    LET nz == { i \in 1..Len(n) : n[i] # 0 }
    IN  IF nz = {} THEN 1 ELSE CHOOSE i \in nz : \A j \in nz : j <= i

UnitNames == << "B", "KB", "MB", "GB", "TB", "PB" >>

\* The text of a size read back: the number before the point, the two
\* digits after it and the unit.
SizeText(t) ==
    LET dot == CHOOSE k \in 1..Len(t) : t[k] = "."
    IN  [ whole |-> DecimalValue(SubSeq(t, 1, dot - 1)),
          cents |-> DecimalValue(SubSeq(t, dot + 1, dot + 2)),
          unit |-> t[Len(t)],
          shaped |-> /\ Len(t) = dot + 4
                     /\ t[dot + 3] = " "
                     /\ IsDigit(SubSeq(t, 1, dot - 1))
                     /\ IsDigit(SubSeq(t, dot + 1, dot + 2)) ]

\* C20: format_size(n) names the first unit of B, KB, MB, GB, TB, PB in
\* which the value n / 1024^k is below 1024 (PB beyond that) and prints
\* that value with two decimals, at most half a hundredth away from it;
\* 0 gives "0.00 B", 1536 gives "1.50 KB" and 1024^4 gives "1.00 TB".
C20_FormatSize ==
    (frame.fn = "format_size" /\ frame.done) =>
        LET n == frame.n
            r == SizeText(frame.text)
            k == IF TopLimb(n) > 6 THEN 6 ELSE TopLimb(n)
            whole == IntValue(SubSeq(n, k, Len(n)))
            f1 == IF k >= 2 THEN n[k - 1] ELSE 0
            f2 == IF k >= 3 THEN n[k - 2] ELSE 0
            diff == ((100 * r.whole + r.cents) - 100 * whole) * (Limb * Limb)
                        - 100 * (f1 * Limb + f2)
        IN  /\ \E j \in 1..Len(frame.text) : frame.text[j] = "."
            /\ r.shaped
            /\ r.unit = UnitNames[k]
            /\ k < 6 => whole < 1024
            /\ 2 * diff <= Limb * Limb
            /\ 2 * diff >= -(Limb * Limb)
            /\ n = Bytes(1, 0, 0, 0) => frame.text = << "0", ".", "0", "0", " ", "B" >>
            /\ n = Bytes(2, 1, 512, 0) => frame.text = << "1", ".", "5", "0", " ", "KB" >>
            /\ n = Bytes(5, 1, 0, 0) => frame.text = << "1", ".", "0", "0", " ", "TB" >>

\* C20 witness: format_size has returned for 1536 bytes, and for a value
\* beyond the last unit of the loop it has returned a PB text.
C20_Witness ==
    /\ frame.fn = "format_size"
    /\ frame.done
    /\ \/ frame.n = Bytes(2, 1, 512, 0)
       \/ frame.n = Bytes(7, 1, 0, 0)
    /\ frame.text \in { << "1", ".", "5", "0", " ", "KB" >>,
                        << "1", "0", "2", "4", ".", "0", "0", " ", "PB" >> }

\* Two items of the call under way with the same destination name, u
\* reaching its copy step after t had created the directory.
Collide(t, u) ==
    /\ t # u
    /\ tasks[t].name = tasks[u].name
    /\ tasks[t].copy = "ok"
    /\ tasks[u].copy = "exists"

\* C21: when two items of one call share their destination name, the
\* directory ends with the content of the item that came to it last.
C21_LastWriterWins ==
    \A t, u \in Workers :
        (Collide(t, u) /\ tasks[t].st = "done" /\ tasks[u].st = "done") =>
            /\ out[tasks[u].name].src = tasks[u].id
            /\ out[tasks[u].name].complete

\* C22: in every directory a fault-free process_addons call leaves, the
\* marker encodes the id of the addon whose source was copied into it, and
\* a marker file that exists is never written again.
C22_MarkerMatchesContent ==
    /\ []((cpc = "idle" /\ faults = 0) =>
            \A d \in DOMAIN out :
                out[d].marker.exists => EncodedId(out[d].marker.content) = out[d].src)
    /\ [][\A d \in DOMAIN out :
            out[d].marker.exists => out'[d].marker = out[d].marker]_vars

\* C23: an addon whose copy or whose marker write failed in the previous
\* call is dispatched again by the call that follows, and when that call
\* has returned without a failure of its own the addon has its marker (so
\* that the call after it skips the addon).
C23_UnmarkedIsRetried ==
    (hist.calls >= 2 /\ hist.unread = {}) =>
        /\ cpc \in { "pool", "submit", "collect", "collect_err", "return_true" } =>
              \A i \in hist.unmarked \cap Discovered : i \in ToProcess
        /\ (cpc = "idle" /\ result = "true") =>
              \A t \in Workers :
                  (tasks[t].id \in hist.unmarked /\ tasks[t].st = "done"
                        /\ tasks[t].copy # "error" /\ tasks[t].mark # "failed") =>
                      MarkerDirs(tasks[t].id) # {}

\* The cache was looked into for the item t: the probe found the file and
\* handed it to gmad, or found nothing.
CacheProbed(t) ==
    \/ tasks[t].pc = "run_cache"
    \/ tasks[t].unpack \in { "ok_cache", "failed_cache", "not_in_cache" }

\* What the claim asks for before the cache is used for the item t.
CacheDue(t) ==
    /\ ~Falsy(gmad_path)
    /\ ~Falsy(cache_path)
    /\ ~out[tasks[t].name].gma

\* C24: decompile_gma_files looks into the cache for <id>.gma exactly when
\* gmad and a cache folder are configured and the destination holds no
\* .gma file, and hands the cache file to gmad exactly when it is there;
\* a destination with a .gma file is unpacked from that file alone, also
\* when gmad fails on it.
C24_CacheIsFallback ==
    \A t \in Workers :
        /\ CacheProbed(t) => CacheDue(t)
        /\ tasks[t].pc \in { "end", "done" } /\ tasks[t].unpack # "na" =>
            /\ CacheDue(t) => CacheProbed(t)
            /\ tasks[t].unpack \in { "ok_cache", "failed_cache" }
                  <=> (CacheDue(t) /\ tasks[t].id \in cache_gma)
            /\ (~Falsy(gmad_path) /\ out[tasks[t].name].gma)
                  => tasks[t].unpack \in { "ok_folder", "failed_folder" }
        /\ tasks[t].unpack = "ok_cache" => out[tasks[t].name].unpacked

\* gmad failed on the .gma of a destination while the cache folder holds
\* the archive of the same addon, and the cache was left alone; another
\* item was unpacked from the cache.
C24_Witness ==
    /\ cpc = "idle"
    /\ result = "true"
    /\ hist.calls = 2
    /\ \E t \in Workers :
        /\ tasks[t].st = "done"
        /\ tasks[t].unpack = "failed_folder"
        /\ tasks[t].id \in cache_gma
        /\ ~Falsy(cache_path)
    /\ \E d \in DOMAIN out : out[d].unpacked /\ ~out[d].gma

\* initialize() has returned True and no set_manual_paths call followed.
Initialized == frame.fn = "initialize" /\ frame.ret = "true"

\* C25: after a successful initialize() cache_path is set whenever a cache
\* candidate exists on the disk, whether or not gmad was found.
C25_CacheFoundIndependently ==
    (Initialized /\ frame.cache) => cache_path # NoPath

\* C25, amended: after a successful initialize() on a new translator
\* cache_path is set exactly when a gmad candidate and a cache candidate
\* exist, and then it is the cache candidate.
C25_CacheFoundWithGmad ==
    Initialized =>
        /\ cache_path # NoPath <=> (frame.gmad /\ frame.cache)
        /\ cache_path # NoPath => cache_path = CacheFound
        /\ gmad_path # NoPath <=> frame.gmad

\* A cache folder is on the disk, gmad is not, and initialize() has
\* returned.
C25_Witness ==
    /\ Initialized
    /\ frame.cache
    /\ ~frame.gmad
    /\ workshop_path = WorkshopFound

\* A candidate of the list on a drive of the list, drive 0 for an absolute
\* candidate, and the path it stands for.
Expansions ==
    { [cand |-> i, drive |-> j] :
        i \in 1..Len(WORKSHOP_PATH_CANDIDATES), j \in 0..Len(DriveRoots) }

ExpansionPath(r) ==
    IF r.drive = 0 THEN WORKSHOP_PATH_CANDIDATES[r.cand]
    ELSE DriveRoots[r.drive] \o WORKSHOP_PATH_CANDIDATES[r.cand]

\* The expansions that exist on the disk of the call: absolute candidates
\* as they are, relative ones on the drives that are there.
ExistingExpansions ==
    { r \in Expansions :
        /\ (r.drive = 0) <=> IsAbs(WORKSHOP_PATH_CANDIDATES[r.cand])
        /\ r.drive # 0 => DriveRoots[r.drive] \in frame.existing
        /\ ExpansionPath(r) \in frame.existing }

FindReturned == frame.fn = "find_steam_workshop" /\ frame.ret # "pending"

\* C26: find_steam_workshop returns False exactly when no candidate
\* exists, and otherwise chooses an existing candidate that no other
\* existing one precedes in WORKSHOP_PATH_CANDIDATES, the expansions of
\* one relative candidate ordered by drive.
C26_FirstInCandidateOrder ==
    FindReturned =>
        /\ frame.ret = "false" <=> ExistingExpansions = {}
        /\ frame.ret = "true" =>
            \E r \in ExistingExpansions :
                /\ workshop_path = PathArg(ExpansionPath(r))
                /\ \A q \in ExistingExpansions :
                      r.cand < q.cand \/ (r.cand = q.cand /\ r.drive <= q.drive)

\* C26, amended: the absolute candidates come first, in list order; then
\* the drives in alphabetical order, and on each drive the relative
\* candidates in list order.
C26_FirstInSearchOrder ==
    FindReturned =>
        /\ frame.ret = "false" <=> ExistingExpansions = {}
        /\ frame.ret = "false" => workshop_path = NoPath
        /\ frame.ret = "true" =>
            \E r \in ExistingExpansions :
                /\ workshop_path = PathArg(ExpansionPath(r))
                /\ \A q \in ExistingExpansions :
                      r.drive < q.drive \/ (r.drive = q.drive /\ r.cand <= q.cand)

\* The second relative candidate exists on the first drive and the first
\* relative candidate on the second drive only: the first drive wins.
C26_Witness ==
    /\ FindReturned
    /\ [cand |-> 3, drive |-> 2] \in ExistingExpansions
    /\ [cand |-> 3, drive |-> 1] \notin ExistingExpansions
    /\ workshop_path = PathArg(ExpansionPath([cand |-> 4, drive |-> 1]))

\* set_manual_paths has returned (False, message).
ManualFailed ==
    /\ frame.fn = "set_manual_paths"
    /\ frame.ret \in { "invalid_workshop", "invalid_gmad", "invalid_cache" }

\* C27: a set_manual_paths call that returns failure leaves workshop_path,
\* translated_path, gmad_path and cache_path as they were before it, and
\* whenever workshop_path is set, translated_path is the 4000Translated
\* sibling of that workshop_path.
C27_FailureChangesNothing ==
    /\ ManualFailed =>
          << workshop_path, translated_path, gmad_path, cache_path >> = frame.before
    /\ workshop_path # NoPath =>
          Components(translated_path.v)
              = Parent(Components(workshop_path.v)) \o << TranslatedName >>

\* C28: in a batch that starts after set_manual_paths returned success for
\* a call without gmad path, no item is handed to gmad: decompilation is
\* skipped for every addon.
C28_NoGmadGivenSkipsDecompile ==
    ( /\ frame.fn = "set_manual_paths"
      /\ frame.ret = "ok"
      /\ Falsy(frame.gmad)
      /\ hist.calls > frame.calls ) =>
        \A t \in Workers :
            /\ tasks[t].pc \notin { "run_gma", "cache", "run_cache" }
            /\ tasks[t].unpack \in { "na", "skipped" }

\* C29: at most one process_addons batch of the window is in flight,
\* whatever is clicked and whichever callbacks run meanwhile.
C29_OneBatchAtATime ==
    /\ window.batch <= 1
    /\ window.batch = 1 => processing

\* A batch is in flight, the Start button is enabled again and was
\* clicked, and start_processing returned at its first check.
C29_Witness ==
    /\ window.batch = 1
    /\ window.start
    /\ window.last = "busy"

\* C30: the deletion thread and a batch are never alive at the same time.
C30_DeleteAndBatchExclusive ==
    ~(window.batch > 0 /\ window.deleting > 0)

\* C31: whenever the Start Processing button is enabled, the translator of
\* the window has its workshop_path and its translated_path set.
C31_StartImpliesPaths ==
    window.start => (~Falsy(workshop_path) /\ ~Falsy(translated_path))

\* C32: once a batch has been started from the window, the processing flag
\* is reset and each of the Start button, the Initialize button and the
\* thread spinbox is enabled again at some later time.
C32_ControlsComeBack ==
    /\ processing ~> ~processing
    /\ processing ~> window.start
    /\ processing ~> window.spinbox
    /\ processing ~> window.init

\* C33: log_message and update_progress of the window are run by the UI
\* thread only, never by the thread of a batch or by a pool thread.
C33_WidgetsOnlyOnUiThread ==
    (InLogMessage \cup InUpdateProgress) \subseteq { UiThread }

=============================================================================
